---------------------------- MODULE Spec2Model ----------------------------
(***************************************************************************)
(* Model of the path-expression engine of src/src/index.ts: tokenizePath,  *)
(* parseArguments, parseValue, evaluatePath / LGet and setValueAtPath /    *)
(* LSet, applied to a JavaScript value graph.                              *)
(*                                                                         *)
(* Strings are sequences of one-character strings.  JavaScript values are  *)
(* records [t, n, d, s, e]: t is the type tag; n the number (n / 10^d), the *)
(* truth value (1 or 0) or the heap index; s the characters of a string; e *)
(* the elements of an array or object literal.  Objects, arrays and functions live in a  *)
(* heap (a sequence of object records); a value of tag "ref" holds the     *)
(* heap index, so that writes are in place and reference identity is       *)
(* observable.                                                             *)
(*                                                                         *)
(* The module also models the keyed collection SetEx (the variable setex)  *)
(* and the form validation of ValidForm and ValidItem (the variable form,  *)
(* with the calls of its async methods under way in acts and the microtask *)
(* queue in queue); the stepwise run of tokenizePath (scan),               *)
(* runSequentially and the validator of ValidItem.element (run), and the   *)
(* Field decorator (meta); each machine leaves the variables of the others *)
(* as they are.                                                            *)
(***************************************************************************)
EXTENDS Integers, Sequences, FiniteSets, TLC

VARIABLES heap, root, pc, call, setex, form, scan, run, meta, acts, queue

vars == <<heap, root, pc, call, setex, form, scan, run, meta, acts, queue>>

---------------------------------------------------------------------------
(* Strings                                                                 *)

DigitChars == <<"0", "1", "2", "3", "4", "5", "6", "7", "8", "9">>

IsDigit(c) == \E d \in 1..10 : DigitChars[d] = c

DigitVal(c) == (CHOOSE d \in 1..10 : DigitChars[d] = c) - 1

RECURSIVE DecValue(_)
DecValue(s) ==
  IF s = <<>> THEN 0
  ELSE 10 * DecValue(SubSeq(s, 1, Len(s) - 1)) + DigitVal(s[Len(s)])

\* The white space String.prototype.trim and Number skip (those of its
\* characters that the strings of the model use).
WhiteSpace == {" ", "\t", "\n", "\r"}

IsSpace(c) == c \in WhiteSpace

RECURSIVE TrimLeft(_)
TrimLeft(s) ==
  IF s # <<>> /\ IsSpace(Head(s)) THEN TrimLeft(Tail(s)) ELSE s

RECURSIVE TrimRight(_)
TrimRight(s) ==
  IF s # <<>> /\ IsSpace(s[Len(s)]) THEN TrimRight(SubSeq(s, 1, Len(s) - 1)) ELSE s

\* String.prototype.trim
Trim(s) == TrimRight(TrimLeft(s))

AllDigits(s) == \A i \in 1..Len(s) : IsDigit(s[i])

HexLetters == <<"a", "b", "c", "d", "e", "f">>

HexCapitals == <<"A", "B", "C", "D", "E", "F">>

\* The value of a digit of a 0x, 0o or 0b literal; 16 for any other character.
HexVal(c) ==
  IF IsDigit(c) THEN DigitVal(c)
  ELSE IF \E d \in 1..6 : HexLetters[d] = c
    THEN 9 + (CHOOSE d \in 1..6 : HexLetters[d] = c)
  ELSE IF \E d \in 1..6 : HexCapitals[d] = c
    THEN 9 + (CHOOSE d \in 1..6 : HexCapitals[d] = c)
  ELSE 16

RECURSIVE RadixValue(_, _)
RadixValue(s, radix) ==
  IF s = <<>> THEN 0
  ELSE radix * RadixValue(SubSeq(s, 1, Len(s) - 1), radix) + HexVal(s[Len(s)])

RECURSIVE Pow10(_)
Pow10(k) == IF k <= 0 THEN 1 ELSE 10 * Pow10(k - 1)

\* A number is held as n / 10^d with the smallest d >= 0 (d = 0: an integer);
\* d = -1 with n = 1 or -1 stands for Infinity and -Infinity.  nan marks NaN.
\* Negative zero is held as zero (they are === and name the same key).
NaN == [nan |-> TRUE, n |-> 0, d |-> 0]

RECURSIVE Normalised(_, _)
Normalised(m, d) ==
  IF d > 0 /\ m % 10 = 0 THEN Normalised(m \div 10, d - 1)
  ELSE [nan |-> FALSE, n |-> m, d |-> d]

\* m / 10^d times 10^x.
Scaled(m, d, x) ==
  IF x >= d THEN Normalised(m * Pow10(x - d), 0) ELSE Normalised(m, d - x)

Negated(r) == [r EXCEPT !.n = 0 - @]

\* The first position of s holding a character of cs, 0 when there is none.
IndexOf(s, cs) ==
  IF \E i \in 1..Len(s) : s[i] \in cs
  THEN CHOOSE i \in 1..Len(s) : s[i] \in cs /\ \A j \in 1..(i - 1) : s[j] \notin cs
  ELSE 0

\* The digits of an exponent as a number, 0 when they are not digits.
ExponentDigits(digits) ==
  IF digits # <<>> /\ AllDigits(digits) THEN DecValue(digits) ELSE 0

\* The exponent part after the e: an optional sign and at least one digit.
ExponentOf(expo) ==
  IF expo # <<>> /\ Head(expo) \in {"+", "-"}
  THEN [ok |-> Tail(expo) # <<>> /\ AllDigits(Tail(expo)),
        x |-> IF Head(expo) = "-" THEN 0 - ExponentDigits(Tail(expo))
              ELSE ExponentDigits(Tail(expo))]
  ELSE [ok |-> expo # <<>> /\ AllDigits(expo), x |-> ExponentDigits(expo)]

\* Integer part ip, fraction fp and exponent ex of an unsigned decimal literal
\* (hasExp: an e was written): digits with at least one of ip and fp.
DecimalParts(ip, fp, hasExp, ex) ==
  IF AllDigits(ip) /\ AllDigits(fp) /\ (ip # <<>> \/ fp # <<>>) /\ (hasExp => ex.ok)
  THEN Scaled(DecValue(ip \o fp), Len(fp), IF hasExp THEN ex.x ELSE 0)
  ELSE NaN

\* The mantissa mant of an unsigned decimal literal, cut at its point p.
MantissaParts(mant, p, hasExp, ex) ==
  IF p = 0 THEN DecimalParts(mant, <<>>, hasExp, ex)
  ELSE DecimalParts(SubSeq(mant, 1, p - 1), SubSeq(mant, p + 1, Len(mant)), hasExp, ex)

\* An unsigned decimal literal, cut at its exponent marker k.
DecimalCut(body, k) ==
  IF k = 0 THEN MantissaParts(body, IndexOf(body, {"."}), FALSE, [ok |-> TRUE, x |-> 0])
  ELSE MantissaParts(SubSeq(body, 1, k - 1), IndexOf(SubSeq(body, 1, k - 1), {"."}),
                     TRUE, ExponentOf(SubSeq(body, k + 1, Len(body))))

InfinityChars == <<"I", "n", "f", "i", "n", "i", "t", "y">>

\* StrUnsignedDecimalLiteral
UnsignedDecimal(body) ==
  IF body = InfinityChars THEN [nan |-> FALSE, n |-> 1, d |-> 0 - 1]
  ELSE DecimalCut(body, IndexOf(body, {"e", "E"}))

\* A 0x, 0o or 0b literal t of the given radix.
RadixLiteral(t, radix) ==
  IF Len(t) > 2 /\ \A i \in 3..Len(t) : HexVal(t[i]) < radix
  THEN [nan |-> FALSE, n |-> RadixValue(SubSeq(t, 3, Len(t)), radix), d |-> 0]
  ELSE NaN

\* StringToNumber of a trimmed string t.
NumberOfTrimmed(t) ==
  IF t = <<>> THEN [nan |-> FALSE, n |-> 0, d |-> 0]
  ELSE IF Len(t) >= 2 /\ t[1] = "0" /\ t[2] \in {"x", "X"} THEN RadixLiteral(t, 16)
  ELSE IF Len(t) >= 2 /\ t[1] = "0" /\ t[2] \in {"o", "O"} THEN RadixLiteral(t, 8)
  ELSE IF Len(t) >= 2 /\ t[1] = "0" /\ t[2] \in {"b", "B"} THEN RadixLiteral(t, 2)
  ELSE IF t[1] = "-" THEN Negated(UnsignedDecimal(Tail(t)))
  ELSE IF t[1] = "+" THEN UnsignedDecimal(Tail(t))
  ELSE UnsignedDecimal(t)

\* Number(s), the conversion of a string to a number: white space only is 0;
\* otherwise a decimal literal with optional sign, fraction and exponent, a
\* signed Infinity, or an unsigned 0x, 0o or 0b literal; any other string is
\* NaN.  (The numerals of the model stay within the integers of the checker
\* and within six decimal places.)
Number(s) == NumberOfTrimmed(Trim(s))

\* String(n) for a natural number n.
RECURSIVE NumToStr(_)
NumToStr(n) ==
  IF n < 10 THEN <<DigitChars[n + 1]>>
  ELSE NumToStr(n \div 10) \o <<DigitChars[(n % 10) + 1]>>

\* The digits of f, on d places.
RECURSIVE Padded(_, _)
Padded(f, d) == IF Len(f) >= d THEN f ELSE Padded(<<"0">> \o f, d)

\* String(m / 10^d) for m >= 0.
UnsignedToStr(m, d) ==
  IF d = 0 THEN NumToStr(m)
  ELSE NumToStr(m \div Pow10(d)) \o <<".">> \o Padded(NumToStr(m % Pow10(d)), d)

\* String(x) for a number held as n / 10^d: the property key it names.
NumberToString(n, d) ==
  IF d = 0 - 1 THEN (IF n < 0 THEN <<"-">> ELSE <<>>) \o InfinityChars
  ELSE IF n < 0 THEN <<"-">> \o UnsignedToStr(0 - n, d)
  ELSE UnsignedToStr(n, d)

StartsWith(s, c) == s # <<>> /\ s[1] = c

EndsWith(s, c) == s # <<>> /\ s[Len(s)] = c

---------------------------------------------------------------------------
(* Values                                                                  *)

Undefined == [t |-> "undefined", n |-> 0, d |-> 0, s |-> <<>>, e |-> <<>>]

Null == [t |-> "null", n |-> 0, d |-> 0, s |-> <<>>, e |-> <<>>]

Num(n) == [t |-> "number", n |-> n, d |-> 0, s |-> <<>>, e |-> <<>>]

\* The number a conversion r gave.
NumberValue(r) == [t |-> "number", n |-> r.n, d |-> r.d, s |-> <<>>, e |-> <<>>]

\* A property key that is an integer index: the own keys of an object are
\* enumerated (for...in, Object.keys, JSON.stringify) with the integer
\* indices first, in ascending numeric order, then the other keys in the
\* order of their creation.
IsIntegerKey(k) == k # <<>> /\ AllDigits(k) /\ NumToStr(DecValue(k)) = k

\* A new key k takes its place before the key other.
KeyBefore(k, other) ==
  IsIntegerKey(k) /\ (~IsIntegerKey(other) \/ DecValue(k) < DecValue(other))

Str(s) == [t |-> "string", n |-> 0, d |-> 0, s |-> s, e |-> <<>>]

Bool(b) == [t |-> "boolean", n |-> IF b THEN 1 ELSE 0, d |-> 0, s |-> <<>>, e |-> <<>>]

Ref(id) == [t |-> "ref", n |-> id, d |-> 0, s |-> <<>>, e |-> <<>>]

\* An array literal produced by JSON.parse in an argument list.
ArrLit(vs) == [t |-> "arraylit", n |-> 0, d |-> 0, s |-> <<>>, e |-> vs]

\* The value stored in a property slot that is an accessor whose getter throws.
ThrowingGetter == [t |-> "getter", n |-> 0, d |-> 0, s |-> <<>>, e |-> <<>>]

\* x == null
IsNullish(x) == x.t \in {"undefined", "null"}

\* !x
IsFalsy(x) ==
  \/ IsNullish(x)
  \/ x = Num(0)
  \/ x = Str(<<>>)
  \/ x = Bool(FALSE)

---------------------------------------------------------------------------
(* parseValue, parseArguments, tokenizePath                                *)

\* An object produced by JSON.parse in an argument list: e holds its entries
\* in order, each key (a string value) followed by its value.
ObjLit(kvs) == [t |-> "objectlit", n |-> 0, d |-> 0, s |-> <<>>, e |-> kvs]

\* JSON.parse.  A parse of the text s from position i gives [ok, v, i]: the
\* value and the position after it; ok = FALSE stands for the SyntaxError.
\* (The texts of the model use no \b, \f or \u escape.)
JSONFail == [ok |-> FALSE, v |-> Undefined, i |-> 0]

JSONDone(v, i) == [ok |-> TRUE, v |-> v, i |-> i]

RECURSIVE SkipWs(_, _)
SkipWs(s, i) == IF i <= Len(s) /\ IsSpace(s[i]) THEN SkipWs(s, i + 1) ELSE i

\* s has the characters w at position i.
HasAt(s, i, w) == i + Len(w) - 1 <= Len(s) /\ SubSeq(s, i, i + Len(w) - 1) = w

TrueChars == <<"t", "r", "u", "e">>

FalseChars == <<"f", "a", "l", "s", "e">>

NullChars == <<"n", "u", "l", "l">>

UndefinedChars == <<"u", "n", "d", "e", "f", "i", "n", "e", "d">>

NumberChars == {"0", "1", "2", "3", "4", "5", "6", "7", "8", "9", "-", "+", ".", "e", "E"}

\* The end of the run of number characters of s that starts at i.
RECURSIVE NumberEnd(_, _)
NumberEnd(s, i) == IF i <= Len(s) /\ s[i] \in NumberChars THEN NumberEnd(s, i + 1) ELSE i

\* The JSON number grammar on an unsigned text cut at exponent marker k and,
\* before it, at point p: no leading zero, digits on both sides of the point.
JSONNumberCut(body, k, mant, p) ==
  /\ \E ip \in {IF p = 0 THEN mant ELSE SubSeq(mant, 1, p - 1)} :
       ip # <<>> /\ AllDigits(ip) /\ (Len(ip) = 1 \/ ip[1] # "0")
  /\ p # 0 => (p < Len(mant) /\ AllDigits(SubSeq(mant, p + 1, Len(mant))))
  /\ k # 0 => ExponentOf(SubSeq(body, k + 1, Len(body))).ok

JSONNumberBody(body, k) ==
  \E mant \in {IF k = 0 THEN body ELSE SubSeq(body, 1, k - 1)} :
    JSONNumberCut(body, k, mant, IndexOf(mant, {"."}))

IsJSONNumber(t) ==
  IF t # <<>> /\ Head(t) = "-" THEN JSONNumberBody(Tail(t), IndexOf(Tail(t), {"e", "E"}))
  ELSE JSONNumberBody(t, IndexOf(t, {"e", "E"}))

JSONNumber(s, i, j) ==
  IF IsJSONNumber(SubSeq(s, i, j - 1))
  THEN JSONDone(NumberValue(Number(SubSeq(s, i, j - 1))), j)
  ELSE JSONFail

\* The string whose opening quote is before position i, acc its characters so far.
RECURSIVE JSONString(_, _, _)
JSONString(s, i, acc) ==
  IF i > Len(s) THEN JSONFail
  ELSE IF s[i] = "\"" THEN JSONDone(Str(acc), i + 1)
  ELSE IF s[i] = "\\" THEN
    IF i + 1 > Len(s) THEN JSONFail
    ELSE IF s[i + 1] \in {"\"", "\\", "/"} THEN JSONString(s, i + 2, Append(acc, s[i + 1]))
    ELSE IF s[i + 1] = "n" THEN JSONString(s, i + 2, Append(acc, "\n"))
    ELSE IF s[i + 1] = "t" THEN JSONString(s, i + 2, Append(acc, "\t"))
    ELSE IF s[i + 1] = "r" THEN JSONString(s, i + 2, Append(acc, "\r"))
    ELSE JSONFail
  ELSE IF s[i] \in {"\t", "\n", "\r"} THEN JSONFail
  ELSE JSONString(s, i + 1, Append(acc, s[i]))

\* The entries kvs with key k set to v, in the order the keys of the object
\* are enumerated: a repeated key keeps its place, a new integer index goes
\* among the integer indices, any other new key goes last.
RECURSIVE ObjLitPut(_, _, _)
ObjLitPut(kvs, k, v) ==
  IF kvs = <<>> THEN <<k, v>>
  ELSE IF kvs[1] = k THEN <<k, v>> \o SubSeq(kvs, 3, Len(kvs))
  ELSE IF KeyBefore(k.s, kvs[1].s) THEN <<k, v>> \o kvs
  ELSE <<kvs[1], kvs[2]>> \o ObjLitPut(SubSeq(kvs, 3, Len(kvs)), k, v)

RECURSIVE JSONValue(_, _)
RECURSIVE JSONValueAt(_, _)
RECURSIVE JSONArrayNext(_, _, _, _)
RECURSIVE JSONArrayAfter(_, _, _)
RECURSIVE JSONMember(_, _, _)
RECURSIVE JSONMemberColon(_, _, _, _)
RECURSIVE JSONMemberNext(_, _, _, _, _)
RECURSIVE JSONMemberAfter(_, _, _, _)
RECURSIVE JSONKeyAfter(_, _, _)

\* After element r of an array: j is the position of the next token.
JSONArrayNext(s, acc, r, j) ==
  IF ~r.ok \/ j > Len(s) THEN JSONFail
  ELSE IF s[j] = "," THEN
    JSONArrayAfter(s, Append(acc, r.v), JSONValue(s, j + 1))
  ELSE IF s[j] = "]" THEN JSONDone(ArrLit(Append(acc, r.v)), j + 1)
  ELSE JSONFail

\* Element r of an array has been parsed after the elements acc.
JSONArrayAfter(s, acc, r) ==
  JSONArrayNext(s, acc, r, IF r.ok THEN SkipWs(s, r.i) ELSE 0)

\* After value r of the member with key k: j is the position of the next token.
JSONMemberNext(s, kvs, k, r, j) ==
  IF ~r.ok \/ j > Len(s) THEN JSONFail
  ELSE IF s[j] = "," THEN JSONMember(s, SkipWs(s, j + 1), ObjLitPut(kvs, k, r.v))
  ELSE IF s[j] = "}" THEN JSONDone(ObjLit(ObjLitPut(kvs, k, r.v)), j + 1)
  ELSE JSONFail

\* After key k of a member: j is the position of the colon.
JSONMemberColon(s, kvs, k, j) ==
  IF ~k.ok \/ j > Len(s) THEN JSONFail
  ELSE IF s[j] # ":" THEN JSONFail
  ELSE JSONMemberAfter(s, kvs, k.v, JSONValue(s, j + 1))

\* Value r of the member with key k has been parsed.
JSONMemberAfter(s, kvs, k, r) ==
  JSONMemberNext(s, kvs, k, r, IF r.ok THEN SkipWs(s, r.i) ELSE 0)

\* A member of an object, its key starting at position i.
JSONMember(s, i, kvs) ==
  IF i > Len(s) THEN JSONFail
  ELSE IF s[i] # "\"" THEN JSONFail
  ELSE JSONKeyAfter(s, kvs, JSONString(s, i + 1, <<>>))

\* Key k of a member has been parsed.
JSONKeyAfter(s, kvs, k) ==
  JSONMemberColon(s, kvs, k, IF k.ok THEN SkipWs(s, k.i) ELSE 0)

\* The value whose first character is at position i.
JSONValueAt(s, i) ==
  IF i > Len(s) THEN JSONFail
  ELSE IF s[i] = "[" THEN
    IF SkipWs(s, i + 1) <= Len(s) /\ s[SkipWs(s, i + 1)] = "]"
    THEN JSONDone(ArrLit(<<>>), SkipWs(s, i + 1) + 1)
    ELSE JSONArrayAfter(s, <<>>, JSONValue(s, i + 1))
  ELSE IF s[i] = "{" THEN
    IF SkipWs(s, i + 1) <= Len(s) /\ s[SkipWs(s, i + 1)] = "}"
    THEN JSONDone(ObjLit(<<>>), SkipWs(s, i + 1) + 1)
    ELSE JSONMember(s, SkipWs(s, i + 1), <<>>)
  ELSE IF s[i] = "\"" THEN JSONString(s, i + 1, <<>>)
  ELSE IF HasAt(s, i, TrueChars) THEN JSONDone(Bool(TRUE), i + 4)
  ELSE IF HasAt(s, i, FalseChars) THEN JSONDone(Bool(FALSE), i + 5)
  ELSE IF HasAt(s, i, NullChars) THEN JSONDone(Null, i + 4)
  ELSE JSONNumber(s, i, NumberEnd(s, i))

JSONValue(s, i) == JSONValueAt(s, SkipWs(s, i))

\* The value and nothing but white space after it.
JSONWhole(s, r) ==
  IF r.ok /\ SkipWs(s, r.i) > Len(s) THEN [ok |-> TRUE, v |-> r.v]
  ELSE [ok |-> FALSE, v |-> Undefined]

JSONParse(s) == JSONWhole(s, JSONValue(s, 1))

\* parsedOrRaw giving undefined, not the text, when the parse fails.
parsedOrRawAbsent(trimmed, r) == IF r.ok THEN r.v ELSE Undefined

\* try { return JSON.parse(trimmed) } catch { return trimmed }
parsedOrRaw(trimmed, r) == IF r.ok THEN r.v ELSE Str(trimmed)

\* parseValue after the trim.
parseTrimmed(trimmed) ==
  IF trimmed = <<>> THEN Str(<<>>)
  ELSE IF \/ StartsWith(trimmed, "\"") /\ EndsWith(trimmed, "\"")
          \/ StartsWith(trimmed, "'") /\ EndsWith(trimmed, "'")
       THEN Str(SubSeq(trimmed, 2, Len(trimmed) - 1))
  ELSE IF StartsWith(trimmed, "[") /\ EndsWith(trimmed, "]")
       THEN parsedOrRaw(trimmed, JSONParse(trimmed))
  ELSE IF StartsWith(trimmed, "{") /\ EndsWith(trimmed, "}")
       THEN parsedOrRaw(trimmed, JSONParse(trimmed))
  ELSE IF ~Number(trimmed).nan THEN NumberValue(Number(trimmed))
  ELSE IF trimmed = TrueChars THEN Bool(TRUE)
  ELSE IF trimmed = FalseChars THEN Bool(FALSE)
  ELSE IF trimmed = NullChars THEN Null
  ELSE IF trimmed = UndefinedChars THEN Undefined
  ELSE Str(trimmed)

parseValue(valueStr) == parseTrimmed(Trim(valueStr))

\* The state of the scan of parseArguments is st = [args, current, inString,
\* stringChar, parenCount, bracketCount], the values of the locals before
\* character i.

\* scanChar with a comma ending the field whatever the paren and bracket
\* depths are.
scanCharAnyDepth(argsStr, i, st) ==
  LET char == argsStr[i]
      app  == [st EXCEPT !.current = Append(@, char)]
  IN IF ~st.inString THEN
       IF char = "\"" \/ char = "'"
         THEN [app EXCEPT !.inString = TRUE, !.stringChar = char]
       ELSE IF char = "(" THEN [app EXCEPT !.parenCount = @ + 1]
       ELSE IF char = ")" THEN [app EXCEPT !.parenCount = @ - 1]
       ELSE IF char = "[" THEN [app EXCEPT !.bracketCount = @ + 1]
       ELSE IF char = "]" THEN [app EXCEPT !.bracketCount = @ - 1]
       ELSE IF char = ","
         THEN [st EXCEPT !.args = Append(@, parseValue(Trim(st.current))),
                         !.current = <<>>]
       ELSE app
     ELSE
       IF char = st.stringChar /\ ~(i > 1 /\ argsStr[i - 1] = "\\")
         THEN [app EXCEPT !.inString = FALSE, !.stringChar = ""]
       ELSE app

\* The body of the for loop of parseArguments on the character at i.
scanChar(argsStr, i, st) ==
  LET char == argsStr[i]
      app  == [st EXCEPT !.current = Append(@, char)]
  IN IF ~st.inString THEN
       IF char = "\"" \/ char = "'"
         THEN [app EXCEPT !.inString = TRUE, !.stringChar = char]
       ELSE IF char = "(" THEN [app EXCEPT !.parenCount = @ + 1]
       ELSE IF char = ")" THEN [app EXCEPT !.parenCount = @ - 1]
       ELSE IF char = "[" THEN [app EXCEPT !.bracketCount = @ + 1]
       ELSE IF char = "]" THEN [app EXCEPT !.bracketCount = @ - 1]
       ELSE IF char = "," /\ st.parenCount = 0 /\ st.bracketCount = 0
         THEN [st EXCEPT !.args = Append(@, parseValue(Trim(st.current))),
                         !.current = <<>>]
       ELSE app
     ELSE
       IF char = st.stringChar /\ ~(i > 1 /\ argsStr[i - 1] = "\\")
         THEN [app EXCEPT !.inString = FALSE, !.stringChar = ""]
       ELSE app

RECURSIVE parseArgumentsLoop(_, _, _)

\* parseArgumentsLoop pushing the final field even when it is blank.
parseArgumentsLoopKeepsBlank(argsStr, i, st) ==
  IF i > Len(argsStr) THEN Append(st.args, parseValue(Trim(st.current)))
  ELSE CHOOSE r \in {parseArgumentsLoop(argsStr, i + 1, next) :
                       next \in {scanChar(argsStr, i, st)}} : TRUE

\* The for loop of parseArguments from position i, and the flush after it;
\* next is the state of the locals after the iteration on position i.
parseArgumentsLoop(argsStr, i, st) ==
  IF i > Len(argsStr) THEN
    IF Trim(st.current) # <<>>
    THEN Append(st.args, parseValue(Trim(st.current)))
    ELSE st.args
  ELSE CHOOSE r \in {parseArgumentsLoop(argsStr, i + 1, next) :
                       next \in {scanChar(argsStr, i, st)}} : TRUE

parseArguments(argsStr) ==
  IF Trim(argsStr) = <<>> THEN <<>>
  ELSE parseArgumentsLoop(argsStr, 1,
         [args |-> <<>>, current |-> <<>>, inString |-> FALSE,
          stringChar |-> "", parenCount |-> 0, bracketCount |-> 0])

\* Tokens: one record shape for the three variants of PathToken.
PropertyToken(name) ==
  [type |-> "property", value |-> Str(name), name |-> <<>>, args |-> <<>>]

IndexToken(val) ==
  [type |-> "index", value |-> val, name |-> <<>>, args |-> <<>>]

FunctionToken(name, args) ==
  [type |-> "function", value |-> Undefined, name |-> name, args |-> args]

\* indexValue converting only contents that are decimal digits throughout.
indexValueDigitsOnly(indexContent) ==
  IF indexContent # <<>> /\ AllDigits(indexContent)
  THEN Num(DecValue(indexContent))
  ELSE Str(indexContent)

\* isNaN(Number(indexContent)) ? indexContent : Number(indexContent)
indexValue(indexContent) ==
  IF Number(indexContent).nan THEN Str(indexContent)
  ELSE NumberValue(Number(indexContent))

\* The body of the inner while loop after the two tests on path[j], c being
\* the count they left: the character is kept while the count is positive.
scanStepWith(path, j, c, content) ==
  [j |-> j + 1, count |-> c,
   content |-> IF c > 0 THEN Append(content, path[j]) ELSE content]

\* The inner step told to leave the delimiters of a quoted stretch alone: a
\* character met after an odd number of quote characters never changes the
\* count.
scanStepQuoteAware(path, j, count, content, open, close) ==
  IF Cardinality({k \in 1..Len(content) : content[k] \in {"'", "\""}}) % 2 = 1
  THEN scanStepWith(path, j, count, content)
  ELSE scanStepWith(path, j,
                    (IF path[j] = open THEN count + 1 ELSE count)
                      - (IF path[j] = close THEN 1 ELSE 0),
                    content)

\* One iteration of the inner while loop of a delimiter scan:
\*   if (path[j] === open) count++; if (path[j] === close) count--;
\*   if (count > 0) content += path[j]; j++
scanStep(path, j, count, content, open, close) ==
  scanStepWith(path, j,
               (IF path[j] = open THEN count + 1 ELSE count)
                 - (IF path[j] = close THEN 1 ELSE 0),
               content)

\* The inner while loop of both delimiter scans: from position j with the
\* given count, to the position after the delimiter that closes it (or the
\* end of the string).
RECURSIVE scanDelimited(_, _, _, _, _, _)
scanDelimitedNext(path, s, open, close) ==
  scanDelimited(path, s.j, s.count, s.content, open, close)

scanDelimited(path, j, count, content, open, close) ==
  IF j <= Len(path) /\ count > 0
  THEN scanDelimitedNext(path, scanStep(path, j, count, content, open, close), open, close)
  ELSE [j |-> j, content |-> content, count |-> count]

flushProperty(tokens, current) ==
  IF current # <<>> THEN Append(tokens, PropertyToken(current)) ELSE tokens

\* The outer while loop of tokenizePath.
RECURSIVE tokenizeLoop(_, _, _, _)
tokenizeLoop(path, i, current, tokens) ==
  IF i > Len(path) THEN flushProperty(tokens, current)
  ELSE
    LET char == path[i] IN
    IF char = "." THEN
      tokenizeLoop(path, i + 1, <<>>, flushProperty(tokens, current))
    ELSE IF char = "[" THEN
      LET sc == scanDelimited(path, i + 1, 1, <<>>, "[", "]")
      IN tokenizeLoop(path, sc.j, <<>>,
                      Append(flushProperty(tokens, current),
                             IndexToken(indexValue(sc.content))))
    ELSE IF char = "(" THEN
      LET sc == scanDelimited(path, i + 1, 1, <<>>, "(", ")")
      IN tokenizeLoop(path, sc.j, <<>>,
                      Append(tokens, FunctionToken(current, parseArguments(sc.content))))
    ELSE tokenizeLoop(path, i + 1, Append(current, char), tokens)

tokenizePath(path) == tokenizeLoop(path, 1, <<>>, <<>>)

---------------------------------------------------------------------------
(* The value graph                                                         *)

\* One heap cell: a plain object, an array or a function object.  props is
\* the list of own properties in the order they are enumerated (integer
\* indices ascending, then the other keys in the order of their creation);
\* fn names the behaviour of a function object ("" otherwise).
Obj(props) == [kind |-> "object", fn |-> "", props |-> props]

Arr(props) == [kind |-> "array", fn |-> "", props |-> props]

Fun(name) == [kind |-> "function", fn |-> name, props |-> <<>>]

P(k, v) == [k |-> k, v |-> v]

IsRef(x) == x.t = "ref"

\* Array.isArray(x)
IsArray(h, x) == x.t = "arraylit" \/ (IsRef(x) /\ h[x.n].kind = "array")

\* typeof x === 'function'
IsFunction(h, x) == IsRef(x) /\ h[x.n].kind = "function"

\* ToPropertyKey: the property key a token's value names.
ToKey(val) == IF val.t = "number" THEN NumberToString(val.n, val.d) ELSE val.s

\* The position of own property k in props, 0 when there is none.
FindKey(props, k) ==
  IF \E i \in 1..Len(props) : props[i].k = k
  THEN CHOOSE i \in 1..Len(props) : props[i].k = k
  ELSE 0

\* A key that is the canonical form of an index below n.
IsIndexBelow(k, n) == \E i \in 0..(n - 1) : NumToStr(i) = k

\* The value the entries kvs of an object literal hold under key.
RECURSIVE ObjLitGet(_, _)
ObjLitGet(kvs, key) ==
  IF kvs = <<>> THEN Undefined
  ELSE IF kvs[1].s = key THEN kvs[2]
  ELSE ObjLitGet(SubSeq(kvs, 3, Len(kvs)), key)

\* props with the new own property p, at the place of its key.
RECURSIVE putProp(_, _)
putProp(props, p) ==
  IF props = <<>> THEN <<p>>
  ELSE IF KeyBefore(p.k, props[1].k) THEN <<p>> \o props
  ELSE <<props[1]>> \o putProp(Tail(props), p)

\* current[key]: ok = FALSE stands for a thrown exception (a TypeError on
\* null/undefined, or the exception of a throwing getter).  The keys of the
\* model name no inherited member (nothing of Object.prototype,
\* Array.prototype or String.prototype, and not "length").
GetMember(h, current, key) ==
  IF IsNullish(current) THEN [ok |-> FALSE, v |-> Undefined]
  ELSE IF IsRef(current) THEN
    LET i == FindKey(h[current.n].props, key) IN
    IF i = 0 THEN [ok |-> TRUE, v |-> Undefined]
    ELSE IF h[current.n].props[i].v = ThrowingGetter THEN [ok |-> FALSE, v |-> Undefined]
    ELSE [ok |-> TRUE, v |-> h[current.n].props[i].v]
  ELSE IF current.t = "string" /\ IsIndexBelow(key, Len(current.s)) THEN
    [ok |-> TRUE, v |-> Str(<<current.s[DecValue(key) + 1]>>)]
  ELSE IF current.t = "arraylit" /\ IsIndexBelow(key, Len(current.e)) THEN
    [ok |-> TRUE, v |-> current.e[DecValue(key) + 1]]
  ELSE IF current.t = "objectlit" THEN [ok |-> TRUE, v |-> ObjLitGet(current.e, key)]
  ELSE [ok |-> TRUE, v |-> Undefined]

\* current[key] = val, in strict mode (the module is an ES module): ok = FALSE
\* stands for the TypeError of a write on null/undefined, on a primitive or on
\* a getter-only accessor.  Non-strict code would skip the write on a
\* primitive silently: the heap is the same either way.  A write on an array
\* or object literal of an argument list succeeds on a temporary no one else
\* holds.
SetMember(h, current, key, val) ==
  IF IsRef(current) THEN
    LET o == h[current.n]
        i == FindKey(o.props, key) IN
    IF i = 0 THEN
      [ok |-> TRUE, h |-> [h EXCEPT ![current.n].props = putProp(@, P(key, val))]]
    ELSE IF o.props[i].v = ThrowingGetter THEN [ok |-> FALSE, h |-> h]
    ELSE [ok |-> TRUE, h |-> [h EXCEPT ![current.n].props[i].v = val]]
  ELSE IF current.t \in {"arraylit", "objectlit"} THEN [ok |-> TRUE, h |-> h]
  ELSE [ok |-> FALSE, h |-> h]

KeyN == <<"n">>

\* fn.apply(current, args) for the function objects of the model:
\*   self  function () { return this }
\*   first function (x) { return x }
\*   bump  function () { this.n = (typeof this.n === 'number' ? this.n : 0) + 1;
\*                       return this.n }
\*   boom  function () { throw new Error() }
\*   upper function () { return this.name.toUpperCase() }
\* ok = FALSE stands for an exception thrown by the call.
bumpTo(h, current, n, w) ==
  IF w.ok THEN [ok |-> TRUE, v |-> Num(n), h |-> w.h]
  ELSE [ok |-> FALSE, v |-> Undefined, h |-> h]

bumpFrom(h, current, old) ==
  IF ~old.ok THEN [ok |-> FALSE, v |-> Undefined, h |-> h]
  ELSE IF old.v.t = "number"
    THEN bumpTo(h, current, old.v.n + 1, SetMember(h, current, KeyN, Num(old.v.n + 1)))
    ELSE bumpTo(h, current, 1, SetMember(h, current, KeyN, Num(1)))

KeyName == <<"n", "a", "m", "e">>

\* String.prototype.toUpperCase on the letters the model uses.
UpperChar(c) ==
  IF c = "a" THEN "A" ELSE IF c = "b" THEN "B" ELSE IF c = "x" THEN "X"
  ELSE IF c = "y" THEN "Y" ELSE c

toUpperCase(s) == [i \in 1..Len(s) |-> UpperChar(s[i])]

\* this.name.toUpperCase(), name being what this.name gave: a TypeError
\* unless it is a string.
upperFrom(h, name) ==
  IF name.ok /\ name.v.t = "string"
  THEN [ok |-> TRUE, v |-> Str(toUpperCase(name.v.s)), h |-> h]
  ELSE [ok |-> FALSE, v |-> Undefined, h |-> h]

Apply(h, fn, current, args) ==
  IF fn = "self" THEN [ok |-> TRUE, v |-> current, h |-> h]
  ELSE IF fn = "first" THEN
    [ok |-> TRUE, v |-> IF Len(args) >= 1 THEN args[1] ELSE Undefined, h |-> h]
  ELSE IF fn = "bump" THEN bumpFrom(h, current, GetMember(h, current, KeyN))
  ELSE IF fn = "upper" THEN upperFrom(h, GetMember(h, current, KeyName))
  ELSE [ok |-> FALSE, v |-> Undefined, h |-> h]

\* One entry of the record of invocations: the token position, the function
\* invoked, its receiver and its arguments.
Invocation(i, fn, current, args) == [tok |-> i, fn |-> fn, this |-> current, args |-> args]

---------------------------------------------------------------------------
(* evaluatePath and LGet                                                   *)

\* What applying one token gives: st is "ok" (go on with cur), "short" (the
\* function returns defaultValue at once) or "throw" (an exception leaves the
\* function); h the heap afterwards; log the invocations made so far.
Step(st, cur, h, log) == [st |-> st, cur |-> cur, h |-> h, log |-> log]

\* What an evaluation hands back: st is "value" (the return after the loop),
\* "short" or "throw"; v the value returned.
Outcome(st, v, h, log) == [st |-> st, v |-> v, h |-> h, log |-> log]

\* current = <the member read, m>
readMember(h, log, m) ==
  IF m.ok THEN Step("ok", m.v, h, log) ELSE Step("throw", Undefined, h, log)

\* current = current[token.name].apply(current, token.args), r being what the
\* call gave.
applied(log, r) ==
  Step(IF r.ok THEN "ok" ELSE "throw", r.v, r.h, log)

\* callMember invoking the member with no argument at all.
callMemberNoArgs(token, i, current, h, log, m, missing) ==
  IF ~m.ok THEN Step("throw", Undefined, h, log)
  ELSE IF IsFunction(h, m.v) THEN
    applied(Append(log, Invocation(i, h[m.v.n].fn, current, <<>>)),
            Apply(h, h[m.v.n].fn, current, <<>>))
  ELSE Step(missing, Undefined, h, log)

\* case 'function' of both loops, m being current[token.name]: the call when m
\* is a function; otherwise evaluatePath returns defaultValue (missing =
\* "short") and setValueAtPath throws (missing = "throw").
callMember(token, i, current, h, log, m, missing) ==
  IF ~m.ok THEN Step("throw", Undefined, h, log)
  ELSE IF IsFunction(h, m.v) THEN
    applied(Append(log, Invocation(i, h[m.v.n].fn, current, token.args)),
            Apply(h, h[m.v.n].fn, current, token.args))
  ELSE Step(missing, Undefined, h, log)

\* evaluateToken creating the member it reads when that member is absent, as
\* the first loop of setValueAtPath does.
evaluateTokenCreating(token, i, current, h, log) ==
  IF token.type \in {"property", "index"} THEN
    IF IsRef(current) /\ FindKey(h[current.n].props, ToKey(token.value)) = 0
    THEN Step("ok", Ref(Len(h) + 1),
              SetMember(Append(h, Obj(<<>>)), current, ToKey(token.value), Ref(Len(h) + 1)).h,
              log)
    ELSE readMember(h, log, GetMember(h, current, ToKey(token.value)))
  ELSE callMember(token, i, current, h, log, GetMember(h, current, token.name), "short")

\* The switch of evaluatePath on token i.
evaluateToken(token, i, current, h, log) ==
  IF token.type \in {"property", "index"}
  THEN readMember(h, log, GetMember(h, current, ToKey(token.value)))
  ELSE callMember(token, i, current, h, log, GetMember(h, current, token.name), "short")

\* return current ? current : defaultValue
finalValueTruthy(current, defaultValue) ==
  IF ~IsFalsy(current) THEN current ELSE defaultValue

\* return current != null ? current : defaultValue
finalValueNotNull(current, defaultValue) ==
  IF ~IsNullish(current) THEN current ELSE defaultValue

\* return current !== undefined ? current : defaultValue
finalValue(current, defaultValue) ==
  IF current # Undefined THEN current ELSE defaultValue

RECURSIVE evaluateLoop(_, _, _, _, _, _)
RECURSIVE evaluateNext(_, _, _, _)

\* evaluateLoop whose null test returns current instead of defaultValue.
evaluateLoopReturnsCurrent(tokens, i, current, defaultValue, h, log) ==
  IF i > Len(tokens) THEN Outcome("value", finalValue(current, defaultValue), h, log)
  ELSE IF IsNullish(current) THEN Outcome("short", current, h, log)
  ELSE evaluateNext(tokens, i, defaultValue, evaluateToken(tokens[i], i, current, h, log))

\* The for loop of evaluatePath before token i (evaluateLoop), and after the
\* switch on token i gave s (evaluateNext).
evaluateLoop(tokens, i, current, defaultValue, h, log) ==
  IF i > Len(tokens) THEN Outcome("value", finalValue(current, defaultValue), h, log)
  ELSE IF IsNullish(current) THEN Outcome("short", defaultValue, h, log)
  ELSE evaluateNext(tokens, i, defaultValue, evaluateToken(tokens[i], i, current, h, log))

evaluateNext(tokens, i, defaultValue, s) ==
  IF s.st = "ok" THEN evaluateLoop(tokens, i + 1, s.cur, defaultValue, s.h, s.log)
  ELSE IF s.st = "short" THEN Outcome("short", defaultValue, s.h, s.log)
  ELSE Outcome("throw", Undefined, s.h, s.log)

evaluatePath(h, obj, path, defaultValue) ==
  evaluateLoop(tokenizePath(path), 1, obj, defaultValue, h, <<>>)

\* What a public call hands back: ret the value returned, threw whether an
\* exception reached the caller, st the outcome of the inner function ("guard"
\* when the first test returned at once), h and log as above.
Returned(ret, threw, st, h, log) ==
  [ret |-> ret, threw |-> threw, st |-> st, h |-> h, log |-> log]

\* LGet without its try/catch: an exception of evaluatePath reaches the caller.
getUncaught(defaultValue, r) ==
  IF r.st = "throw" THEN Returned(Undefined, TRUE, r.st, r.h, r.log)
  ELSE Returned(r.v, FALSE, r.st, r.h, r.log)

\* try { return evaluatePath(...) } catch (error) { return defaultValue }
getCaught(defaultValue, r) ==
  IF r.st = "throw" THEN Returned(defaultValue, FALSE, r.st, r.h, r.log)
  ELSE Returned(r.v, FALSE, r.st, r.h, r.log)

\* The path argument of the model is always a string.
LGet(h, obj, path, defaultValue) ==
  IF IsFalsy(obj) THEN Returned(defaultValue, FALSE, "guard", h, <<>>)
  ELSE getCaught(defaultValue, evaluatePath(h, obj, path, defaultValue))

---------------------------------------------------------------------------
(* setValueAtPath and LSet                                                 *)

\* newContainer creating {} whatever the next token is.
newContainerAlwaysObject(tokens, i) == Obj(<<>>)

\* newContainer with the test inverted: [] unless the next token is an index.
newContainerSwapped(tokens, i) ==
  IF i + 1 <= Len(tokens) /\ tokens[i + 1].type = "index" THEN Obj(<<>>) ELSE Arr(<<>>)

\* (nextToken?.type === 'index') ? [] : {}
newContainer(tokens, i) ==
  IF i + 1 <= Len(tokens) /\ tokens[i + 1].type = "index" THEN Arr(<<>>) ELSE Obj(<<>>)

\* The new container as the value of a literal: [] or {}.
LiteralOf(cell) == IF cell.kind = "array" THEN ArrLit(<<>>) ELSE ObjLit(<<>>)

\* current = current[token.value], after the write w of the new container
\* (the last cell of w.h).  On an array or object literal of an argument
\* list the container is written on the temporary and read back from it:
\* no object of the heap changes and current is the new container.
created(current, key, h, log, w) ==
  IF ~w.ok THEN Step("throw", Undefined, h, log)
  ELSE IF current.t \in {"arraylit", "objectlit"}
    THEN Step("ok", LiteralOf(w.h[Len(w.h)]), h, log)
  ELSE readMember(w.h, log, GetMember(w.h, current, key))

\* vivify without the == null test: the member is replaced by a new container
\* even when it is present.
vivifyAlways(tokens, i, current, key, h, log, m) ==
  IF ~m.ok THEN Step("throw", Undefined, h, log)
  ELSE created(current, key, h, log,
               SetMember(Append(h, newContainer(tokens, i)), current, key, Ref(Len(h) + 1)))

\* if (current[token.value] == null) current[token.value] = <new container>;
\* current = current[token.value], m being the member read by the test.
vivify(tokens, i, current, key, h, log, m) ==
  IF ~m.ok THEN Step("throw", Undefined, h, log)
  ELSE IF IsNullish(m.v) THEN
    created(current, key, h, log,
            SetMember(Append(h, newContainer(tokens, i)), current, key, Ref(Len(h) + 1)))
  ELSE Step("ok", m.v, h, log)

\* The body shared by the 'property' and 'index' cases of the first loop.
descend(tokens, i, current, h, log) ==
  vivify(tokens, i, current, ToKey(tokens[i].value), h, log,
         GetMember(h, current, ToKey(tokens[i].value)))

\* walkToken going on from the receiver of a call, the member not invoked.
walkTokenNoCall(tokens, i, current, h, log) ==
  IF tokens[i].type = "property" THEN descend(tokens, i, current, h, log)
  ELSE IF tokens[i].type = "index" THEN
    IF ~IsArray(h, current) THEN Step("throw", Undefined, h, log)
    ELSE descend(tokens, i, current, h, log)
  ELSE Step("ok", current, h, log)

\* walkToken going on with the current value when the member named by a
\* function token is no function, instead of throwing.
walkTokenMissingSkipped(tokens, i, current, h, log) ==
  IF tokens[i].type = "property" THEN descend(tokens, i, current, h, log)
  ELSE IF tokens[i].type = "index" THEN
    IF ~IsArray(h, current) THEN Step("throw", Undefined, h, log)
    ELSE descend(tokens, i, current, h, log)
  ELSE IF IsRef(current) /\ ~IsFunction(h, GetMember(h, current, tokens[i].name).v)
    THEN Step("ok", current, h, log)
  ELSE callMember(tokens[i], i, current, h, log,
                  GetMember(h, current, tokens[i].name), "throw")

\* The switch of the first loop of setValueAtPath on token i.
walkToken(tokens, i, current, h, log) ==
  IF tokens[i].type = "property" THEN descend(tokens, i, current, h, log)
  ELSE IF tokens[i].type = "index" THEN
    IF ~IsArray(h, current) THEN Step("throw", Undefined, h, log)
    ELSE descend(tokens, i, current, h, log)
  ELSE callMember(tokens[i], i, current, h, log,
                  GetMember(h, current, tokens[i].name), "throw")

\* The first loop of setValueAtPath (all tokens but the last) before token i
\* (walkPrefix), and after the switch on token i gave s (walkNext).
RECURSIVE walkPrefix(_, _, _, _, _)
RECURSIVE walkNext(_, _, _)
walkPrefix(tokens, i, current, h, log) ==
  IF i > Len(tokens) - 1 THEN Step("ok", current, h, log)
  ELSE walkNext(tokens, i, walkToken(tokens, i, current, h, log))

walkNext(tokens, i, s) ==
  IF s.st = "ok" THEN walkPrefix(tokens, i + 1, s.cur, s.h, s.log)
  ELSE Step("throw", Undefined, s.h, s.log)

\* applyLast without the Array.isArray test of case 'index'.
applyLastUnchecked(tokens, current, value, h) ==
  IF tokens = <<>> THEN [ok |-> TRUE, h |-> h]
  ELSE IF tokens[Len(tokens)].type \in {"property", "index"} THEN
    SetMember(h, current, ToKey(tokens[Len(tokens)].value), value)
  ELSE [ok |-> FALSE, h |-> h]

\* applyLast writing the member a final function token names instead of
\* rejecting it.
applyLastCallWritten(tokens, current, value, h) ==
  IF tokens = <<>> THEN [ok |-> TRUE, h |-> h]
  ELSE IF tokens[Len(tokens)].type = "property" THEN
    SetMember(h, current, ToKey(tokens[Len(tokens)].value), value)
  ELSE IF tokens[Len(tokens)].type = "index" THEN
    IF ~IsArray(h, current) THEN [ok |-> FALSE, h |-> h]
    ELSE SetMember(h, current, ToKey(tokens[Len(tokens)].value), value)
  ELSE SetMember(h, current, tokens[Len(tokens)].name, value)

\* The switch on the last token: the write it makes.
applyLast(tokens, current, value, h) ==
  IF tokens = <<>> THEN [ok |-> TRUE, h |-> h]
  ELSE IF tokens[Len(tokens)].type = "property" THEN
    SetMember(h, current, ToKey(tokens[Len(tokens)].value), value)
  ELSE IF tokens[Len(tokens)].type = "index" THEN
    IF ~IsArray(h, current) THEN [ok |-> FALSE, h |-> h]
    ELSE SetMember(h, current, ToKey(tokens[Len(tokens)].value), value)
  ELSE [ok |-> FALSE, h |-> h]

lastDone(log, a) ==
  Outcome(IF a.ok THEN "value" ELSE "throw", Undefined, a.h, log)

\* setValueAtPath after its first loop gave w.
setLast(tokens, value, w) ==
  IF w.st # "ok" THEN Outcome("throw", Undefined, w.h, w.log)
  ELSE lastDone(w.log, applyLast(tokens, w.cur, value, w.h))

setTokens(h, obj, tokens, value) ==
  setLast(tokens, value, walkPrefix(tokens, 1, obj, h, <<>>))

setValueAtPath(h, obj, path, value) == setTokens(h, obj, tokenizePath(path), value)

\* LSet without its try/catch: an exception of setValueAtPath reaches the caller.
setUncaught(obj, r) ==
  Returned(IF r.st = "throw" THEN Undefined ELSE obj, r.st = "throw", r.st, r.h, r.log)

\* try { setValueAtPath(...); return obj } catch (error) { return obj }
setCaught(obj, r) == Returned(obj, FALSE, r.st, r.h, r.log)

LSet(h, obj, path, value) ==
  IF IsFalsy(obj) THEN Returned(obj, FALSE, "guard", h, <<>>)
  ELSE setCaught(obj, setValueAtPath(h, obj, path, value))

---------------------------------------------------------------------------
(* Inputs: the value graphs, paths and values the calls are made with      *)

Ka == <<"a">>

Kb == <<"b">>

Kc == <<"c">>

Kf == <<"f">>

Kg == <<"g">>

Kh == <<"h">>

Kzero == <<"0">>

\* {}
RootEmpty == [heap |-> <<Obj(<<>>)>>, root |-> Ref(1)]

\* r = {a: o, b: [ {a: false, b: o} ]} with o = {a: 0, b: '', c: false} and
\* r.b.b = 7 (a named property of the array); o is reachable by two paths.
RootNested ==
  [heap |-> << Obj(<<P(Ka, Ref(2)), P(Kb, Ref(3))>>),
               Obj(<<P(Ka, Num(0)), P(Kb, Str(<<>>)), P(Kc, Bool(FALSE))>>),
               Arr(<<P(Kzero, Ref(4)), P(Kb, Num(7))>>),
               Obj(<<P(Ka, Bool(FALSE)), P(Kb, Ref(2))>>) >>,
   root |-> Ref(1)]

\* {a: 7, b: 'xy'}
RootScalars ==
  [heap |-> << Obj(<<P(Ka, Num(7)), P(Kb, Str(<<"x", "y">>))>>) >>, root |-> Ref(1)]

\* {a: null, b: {a: null, b: undefined}}
RootNulls ==
  [heap |-> << Obj(<<P(Ka, Null), P(Kb, Ref(2))>>),
               Obj(<<P(Ka, Null), P(Kb, Undefined)>>) >>,
   root |-> Ref(1)]

\* [[0]]
RootArray ==
  [heap |-> << Arr(<<P(Kzero, Ref(2))>>), Arr(<<P(Kzero, Num(0))>>) >>, root |-> Ref(1)]

\* {n: 0, f: bump, g: first, h: self, a: {f: bump}}
RootFunctions ==
  [heap |-> << Obj(<<P(KeyN, Num(0)), P(Kf, Ref(3)), P(Kg, Ref(4)), P(Kh, Ref(5)),
                     P(Ka, Ref(2))>>),
               Obj(<<P(Kf, Ref(3))>>),
               Fun("bump"), Fun("first"), Fun("self") >>,
   root |-> Ref(1)]

\* {f: boom, g: 7, h: self, a: {get b() { throw ... }}, get b() { throw ... }}
RootThrowing ==
  [heap |-> << Obj(<<P(Kf, Ref(2)), P(Kg, Num(7)), P(Kh, Ref(4)), P(Ka, Ref(3)),
                     P(Kb, ThrowingGetter)>>),
               Fun("boom"),
               Obj(<<P(Kb, ThrowingGetter)>>),
               Fun("self") >>,
   root |-> Ref(1)]

\* {name: {name: 'ab', upper}, g: first}
RootNamed ==
  [heap |-> << Obj(<<P(KeyName, Ref(2)), P(Kg, Ref(4))>>),
               Obj(<<P(KeyName, Str(<<"a", "b">>)), P(<<"u", "p", "p", "e", "r">>, Ref(3))>>),
               Fun("upper"), Fun("first") >>,
   root |-> Ref(1)]

RootNull == [heap |-> <<>>, root |-> Null]

RootZero == [heap |-> <<>>, root |-> Num(0)]

RootString == [heap |-> <<>>, root |-> Str(<<"x", "y">>)]

Roots ==
  { RootEmpty, RootNested, RootScalars, RootNulls, RootArray, RootFunctions,
    RootThrowing, RootNamed, RootNull, RootZero, RootString }

\* The path segments paths are built from.
Segments ==
  { <<".", "a">>, <<".", "b">>, <<"[", "0", "]">>, <<"[", "b", "]">>,
    <<".", "f", "(", ")">>, <<".", "g", "(", "7", ")">>, <<".", "h", "(", ")">> }

\* The longest path, in segments.
MaxSegments == 3

RECURSIVE SegmentPaths(_)
SegmentPaths(n) ==
  IF n = 0 THEN {<<>>}
  ELSE LET shorter == SegmentPaths(n - 1) IN
       shorter \cup {p \o s : p \in shorter, s \in Segments}

\* "a.b[0].c"
PathABC == <<"a", ".", "b", "[", "0", "]", ".", "c">>

\* "name.upper()"
PathUpper == <<"n", "a", "m", "e", ".", "u", "p", "p", "e", "r", "(", ")">>

\* "g(5, 'x')"
PathTwoArgs == <<"g", "(", "5", ",", " ", "'", "x", "'", ")">>

\* "g().a"
PathNoArgs == <<"g", "(", ")", ".", "a">>

\* "g([1]).a.b": the path goes on into an array literal of an argument list.
PathOnLiteral == <<"g", "(", "[", "1", "]", ")", ".", "a", ".", "b">>

\* "b[1].a" and "0": integer indices written on objects that hold other keys.
PathIndexOne == <<"b", "[", "1", "]", ".", "a">>

PathZero == <<"0">>

Paths ==
  SegmentPaths(MaxSegments)
    \cup {PathABC, PathUpper, PathTwoArgs, PathNoArgs, PathOnLiteral, PathIndexOne, PathZero}

\* The values written by LSet and the defaults given to LGet.
SetValues == {Undefined, Null, Num(0), Num(5)}

Defaults == {Undefined, Str(<<"d">>)}

---------------------------------------------------------------------------
(* The state machine: one public call on a value graph                     *)

NoCall ==
  [op |-> "none", path |-> <<>>, tokens |-> <<>>, arg |-> Undefined,
   ret |-> Undefined, threw |-> FALSE, st |-> "none", pre |-> <<>>, log |-> <<>>]

\* The record of a call: its inputs (path, its tokens, the default or the
\* value, the heap before) and what came back.
CallRecord(op, path, arg, pre, r) ==
  [op |-> op, path |-> path, tokens |-> tokenizePath(path), arg |-> arg,
   ret |-> r.ret, threw |-> r.threw, st |-> r.st, pre |-> pre, log |-> r.log]

Init ==
  /\ \E r \in Roots : heap = r.heap /\ root = r.root
  /\ pc = "ready"
  /\ call = NoCall
  /\ setex = <<>>
  /\ form = <<>>
  /\ scan = <<>>
  /\ run = <<>>
  /\ meta = <<>>
  /\ acts = <<>>
  /\ queue = <<>>

CallLGet ==
  /\ pc = "ready"
  /\ \E path \in Paths, defaultValue \in Defaults :
     \E r \in {LGet(heap, root, path, defaultValue)} :
       /\ heap' = r.h
       /\ call' = CallRecord("LGet", path, defaultValue, heap, r)
  /\ pc' = "returned"
  /\ UNCHANGED <<root, setex, form, scan, run, meta, acts, queue>>

CallLSet ==
  /\ pc = "ready"
  /\ \E path \in Paths, value \in SetValues :
     \E r \in {LSet(heap, root, path, value)} :
       /\ heap' = r.h
       /\ call' = CallRecord("LSet", path, value, heap, r)
  /\ pc' = "returned"
  /\ UNCHANGED <<root, setex, form, scan, run, meta, acts, queue>>

Next == CallLGet \/ CallLSet

Spec == Init /\ [][Next]_vars

---------------------------------------------------------------------------
(* Vocabulary of the properties                                            *)

\* A path of Property and Index tokens only.
PropIndexOnly(tokens) == \A i \in 1..Len(tokens) : tokens[i].type # "function"

\* The own entry of container x under key, as a sequence of zero or one value.
OwnEntry(h, x, key) ==
  IF IsRef(x) /\ FindKey(h[x.n].props, key) # 0
  THEN <<h[x.n].props[FindKey(h[x.n].props, key)].v>>
  ELSE <<>>

\* The value the property/index tokens i.. address in the graph h from x, by
\* own entries of objects and arrays alone: a sequence of one value, or <<>>
\* when some step finds no entry, a getter or a non-container.
RECURSIVE Addressed(_, _, _, _)
AddressedNext(h, tokens, i, e) ==
  IF e = <<>> \/ e = <<ThrowingGetter>> THEN <<>>
  ELSE Addressed(h, e[1], tokens, i + 1)

Addressed(h, x, tokens, i) ==
  IF i > Len(tokens) THEN <<x>>
  ELSE AddressedNext(h, tokens, i, OwnEntry(h, x, ToKey(tokens[i].value)))

\* The property/index tokens i.. name a location of the graph h from x that a
\* write can reach: every token is applied to an object or array (an Index
\* token to an array), and every member passed through before the last token
\* is null, absent (then the rest of the path is new) or again such a
\* container.  No member touched is a getter.
RECURSIVE Writable(_, _, _, _)
WritableNext(h, tokens, i, e) ==
  \/ i = Len(tokens) /\ e # <<ThrowingGetter>>
  \/ i < Len(tokens) /\ (e = <<>> \/ (e # <<>> /\ IsNullish(e[1])))
  \/ i < Len(tokens) /\ e # <<>> /\ Writable(h, e[1], tokens, i + 1)

Writable(h, x, tokens, i) ==
  /\ IsRef(x)
  /\ tokens[i].type = "index" => h[x.n].kind = "array"
  /\ WritableNext(h, tokens, i, OwnEntry(h, x, ToKey(tokens[i].value)))

\* What the first n tokens lead to from x in h, functions being invoked:
\* [ok, v, h], ok = FALSE when a step before that throws, names a member that
\* is no function, or is applied to null or undefined.
RECURSIVE ValueAfter(_, _, _, _, _)
ValueAfterNext(tokens, i, n, s) ==
  IF s.st = "ok" THEN ValueAfter(s.h, s.cur, tokens, i + 1, n)
  ELSE [ok |-> FALSE, v |-> Undefined, h |-> s.h]

ValueAfter(h, x, tokens, i, n) ==
  IF i > n THEN [ok |-> TRUE, v |-> x, h |-> h]
  ELSE IF IsNullish(x) THEN [ok |-> FALSE, v |-> Undefined, h |-> h]
  ELSE IF tokens[i].type = "function" THEN
    ValueAfterNext(tokens, i, n,
      callMember(tokens[i], i, x, h, <<>>, GetMember(h, x, tokens[i].name), "short"))
  ELSE ValueAfterNext(tokens, i, n,
         readMember(h, <<>>, GetMember(h, x, ToKey(tokens[i].value))))

\* The traversal of the path meets null or undefined before its last token
\* has been applied.
MeetsNullish(h, x, tokens) ==
  \E n \in 0..(Len(tokens) - 1) :
    \E r \in {ValueAfter(h, x, tokens, 1, n)} : r.ok /\ IsNullish(r.v)

\* A reference to an object created during the call.
FreshRef(pre, post, v) == IsRef(v) /\ v.n > Len(pre) /\ v.n <= Len(post)

\* Entry e is what the last token of the call writes: its key, the value given.
IsTerminalEntry(c, e) ==
  /\ c.tokens # <<>>
  /\ c.tokens[Len(c.tokens)].type # "function"
  /\ e.k = ToKey(c.tokens[Len(c.tokens)].value)
  /\ e.v = c.arg

\* Entry e holds a container created at a path position before the last.
IsVivifiedEntry(c, post, e) ==
  /\ FreshRef(c.pre, post, e.v)
  /\ \E j \in 1..(Len(c.tokens) - 1) :
       c.tokens[j].type # "function" /\ ToKey(c.tokens[j].value) = e.k

\* Entry e of object id is the counter written by an invoked bump.
IsBumpEntry(c, id, e) ==
  /\ e.k = KeyN
  /\ \E j \in 1..Len(c.log) : c.log[j].fn = "bump" /\ c.log[j].this = Ref(id)

\* The places <<id, k>> of the entries of h: the own property k of object id.
Places(h) ==
  UNION {{<<id, h[id].props[i].k>> : i \in 1..Len(h[id].props)} : id \in 1..Len(h)}

\* The places of post that pre does not have.
NewPlaces(pre, post) == Places(post) \ Places(pre)

\* The rank of the entry at place pl among the entries of its object, as they
\* are enumerated, and the entry itself.
RankAt(h, pl) == FindKey(h[pl[1]].props, pl[2])

EntryAt(h, pl) == h[pl[1]].props[RankAt(h, pl)]

\* The entry of pre at place pl is still there in post, after the entries of
\* pre it came after.
StillThere(pre, post, pl) ==
  /\ pl \in Places(post)
  /\ \A other \in Places(pre) :
       (other[1] = pl[1] /\ RankAt(pre, other) < RankAt(pre, pl)) =>
         (other \in Places(post) /\ RankAt(post, other) < RankAt(post, pl))

---------------------------------------------------------------------------
(* Properties                                                              *)

\* C1 (as stated, taken for object and array roots and paths of at least one
\* token): for every root, every path of Property and Index tokens and every
\* value v, reading the path back after LSet gives v.
C1_RoundTripEveryRoot ==
  (call.op = "LSet" /\ PropIndexOnly(call.tokens) /\ call.tokens # <<>> /\ IsRef(root))
    => LGet(heap, root, call.path, Undefined).ret = call.arg

\* C1 (amended): the round trip holds when the path names a location a write
\* can reach: the root is an object or array, the path has at least one
\* token, every Index token is applied to an array, and every member passed
\* through before the last token is null, absent, an object or an array.
C1_RoundTrip ==
  (/\ call.op = "LSet"
   /\ PropIndexOnly(call.tokens)
   /\ call.tokens # <<>>
   /\ Writable(call.pre, root, call.tokens, 1))
    => LGet(heap, root, call.path, Undefined).ret = call.arg

C1_Witness ==
  /\ call.op = "LSet"
  /\ PropIndexOnly(call.tokens)
  /\ Len(call.tokens) = 3
  /\ Writable(call.pre, root, call.tokens, 1)
  /\ Len(heap) > Len(call.pre)
  /\ call.arg = Num(5)
  /\ LGet(heap, root, call.path, Undefined).ret = Num(5)

\* C2: LGet never lets an exception reach its caller, and returns the default
\* whenever the evaluation failed inside: it met null or undefined, named a
\* member that is no function, or a member access or an invoked member threw.
C2_LGetNeverThrows ==
  call.op = "LGet" =>
    /\ ~call.threw
    /\ call.st \in {"short", "throw"} => call.ret = call.arg
    /\ (\E j \in 1..Len(call.log) : call.log[j].fn = "boom") => call.ret = call.arg

C2_Witness ==
  /\ call.op = "LGet"
  /\ call.st = "throw"
  /\ \E j \in 1..Len(call.log) : call.log[j].fn = "boom"
  /\ call.arg = Str(<<"d">>)
  /\ call.ret = call.arg

\* C3: LSet never lets an exception reach its caller and returns the root it
\* was given, whether the write succeeded or failed inside.
C3_LSetReturnsRoot ==
  call.op = "LSet" => (~call.threw /\ call.ret = root)

\* A write that failed after it had already changed the graph.
C3_Witness ==
  /\ call.op = "LSet"
  /\ call.st = "throw"
  /\ heap # call.pre
  /\ call.ret = root
  /\ IsRef(root)

\* C4 (as stated): after LSet every entry that existed before, other than the
\* terminal target, is where it was with the same key and value, and the only
\* new entries are containers created at path positions and the terminal
\* target.
C4_NothingElseChanges ==
  call.op = "LSet" =>
    /\ \A pl \in Places(call.pre) :
         /\ StillThere(call.pre, heap, pl)
         /\ \/ EntryAt(heap, pl) = EntryAt(call.pre, pl)
            \/ IsTerminalEntry(call, EntryAt(heap, pl))
    /\ \A pl \in NewPlaces(call.pre, heap) :
         \/ IsTerminalEntry(call, EntryAt(heap, pl))
         \/ IsVivifiedEntry(call, heap, EntryAt(heap, pl))

\* C4 (amended): LSet itself deletes and reorders nothing.  Apart from what an
\* invoked member function writes, every entry that existed before is where
\* it was with the same key, and with the same value unless it is the terminal
\* target or it held null or undefined at a path position before the last and
\* now holds the container created there; the only new entries are such
\* containers and the terminal target.
C4_OnlyPathEntriesChange ==
  call.op = "LSet" =>
    /\ \A pl \in Places(call.pre) :
         /\ StillThere(call.pre, heap, pl)
         /\ \/ EntryAt(heap, pl) = EntryAt(call.pre, pl)
            \/ IsTerminalEntry(call, EntryAt(heap, pl))
            \/ /\ IsNullish(EntryAt(call.pre, pl).v)
               /\ IsVivifiedEntry(call, heap, EntryAt(heap, pl))
            \/ IsBumpEntry(call, pl[1], EntryAt(heap, pl))
    /\ \A pl \in NewPlaces(call.pre, heap) :
         \/ IsTerminalEntry(call, EntryAt(heap, pl))
         \/ IsVivifiedEntry(call, heap, EntryAt(heap, pl))
         \/ IsBumpEntry(call, pl[1], EntryAt(heap, pl))

\* A write through members that were present, beside entries it left alone.
C4_Witness ==
  /\ call.op = "LSet"
  /\ call.st = "value"
  /\ Len(call.tokens) = 3
  /\ call.pre = RootNested.heap
  /\ heap # call.pre
  /\ \E pl \in Places(call.pre) : EntryAt(heap, pl) # EntryAt(call.pre, pl)

\* Object id of post is the container created for path position j: its kind
\* follows the type of token j + 1, and the member token j names holds it.
CreatedAt(c, post, j, id) ==
  /\ j <= Len(c.tokens) - 1
  /\ c.tokens[j].type # "function"
  /\ post[id].kind = IF c.tokens[j + 1].type = "index" THEN "array" ELSE "object"
  /\ \E holder \in 1..Len(post) :
       OwnEntry(post, Ref(holder), ToKey(c.tokens[j].value)) = <<Ref(id)>>

\* { a: { b: [ { c: 5 } ] } }
AfterPathABC ==
  << Obj(<<P(Ka, Ref(2))>>), Obj(<<P(Kb, Ref(3))>>),
     Arr(<<P(Kzero, Ref(4))>>), Obj(<<P(Kc, Num(5))>>) >>

\* C5: the containers LSet creates are created for consecutive path positions
\* before the last, each an array when the next token is an Index token and a
\* plain object otherwise; when the path names a reachable location every
\* member before the last token is a container afterwards; and
\* LSet({}, "a.b[0].c", 5) gives { a: { b: [ { c: 5 } ] } }.
C5_VivificationTyping ==
  call.op = "LSet" =>
    /\ Len(heap) > Len(call.pre) =>
         \E p \in 1..(Len(call.tokens) - 1) :
           \A k \in 1..(Len(heap) - Len(call.pre)) :
             CreatedAt(call, heap, p + k - 1, Len(call.pre) + k)
    /\ (/\ PropIndexOnly(call.tokens)
        /\ call.tokens # <<>>
        /\ Writable(call.pre, root, call.tokens, 1))
         => \E e \in {Addressed(heap, root, SubSeq(call.tokens, 1, Len(call.tokens) - 1), 1)} :
              e # <<>> /\ IsRef(e[1])
    /\ (call.pre = RootEmpty.heap /\ call.path = PathABC /\ call.arg = Num(5))
         => heap = AfterPathABC

C5_Witness ==
  /\ call.op = "LSet"
  /\ call.pre = RootEmpty.heap
  /\ call.path = PathABC
  /\ call.arg = Num(5)
  /\ heap = AfterPathABC

\* C6 (as stated): a call of LGet leaves the graph as it was, and the same
\* call made again returns the same value, function-call tokens included.
C6_ReadChangesNothing ==
  call.op = "LGet" =>
    /\ heap = call.pre
    /\ LGet(heap, root, call.path, call.arg).ret = call.ret

\* C6 (amended): the same, for calls that invoke no member function which
\* itself changes state.
C6_PureReadChangesNothing ==
  (call.op = "LGet" /\ \A j \in 1..Len(call.log) : call.log[j].fn # "bump") =>
    /\ heap = call.pre
    /\ LGet(heap, root, call.path, call.arg).ret = call.ret

\* A read through a function call that changes nothing.
C6_Witness ==
  /\ call.op = "LGet"
  /\ Len(call.log) = 1
  /\ call.log[1].fn = "first"
  /\ call.ret = Num(7)
  /\ heap = call.pre

\* Member f of the root before the call is present and is no array.
PresentNonArray(h, x, key) ==
  \E e \in {OwnEntry(h, x, key)} :
    e # <<>> /\ ~IsNullish(e[1]) /\ ~IsArray(h, e[1])

\* C7: LSet(root, "f[k]", v) with member f present and not an array leaves
\* every entry of the graph as it was and returns root.
C7_NonIndexableWrite ==
  (/\ call.op = "LSet"
   /\ IsRef(root)
   /\ Len(call.tokens) = 2
   /\ call.tokens[1].type = "property"
   /\ call.tokens[2].type = "index"
   /\ PresentNonArray(call.pre, root, ToKey(call.tokens[1].value)))
    => (heap = call.pre /\ call.ret = root /\ ~call.threw)

C7_Witness ==
  /\ call.op = "LSet"
  /\ Len(call.tokens) = 2
  /\ call.tokens[1].type = "property"
  /\ call.tokens[2] = IndexToken(Num(0))
  /\ OwnEntry(call.pre, root, ToKey(call.tokens[1].value)) = <<Num(7)>>
  /\ call.arg = Num(5)
  /\ heap = call.pre

\* C8: when the last token is a FunctionCall, LSet returns root, the member
\* that token names is not invoked, and the value is written nowhere: every
\* entry is as before, or holds a container created on the way, or was written
\* by a function invoked on the way.
C8_FinalCallRejected ==
  (/\ call.op = "LSet"
   /\ call.tokens # <<>>
   /\ call.tokens[Len(call.tokens)].type = "function")
    => /\ ~call.threw
       /\ call.ret = root
       /\ \A j \in 1..Len(call.log) : call.log[j].tok # Len(call.tokens)
       /\ \A pl \in Places(heap) :
            \/ pl \in Places(call.pre) /\ EntryAt(heap, pl) = EntryAt(call.pre, pl)
            \/ IsVivifiedEntry(call, heap, EntryAt(heap, pl))
            \/ IsBumpEntry(call, pl[1], EntryAt(heap, pl))

\* The last token names a member that is a function (bump), left uninvoked.
C8_Witness ==
  /\ call.op = "LSet"
  /\ Len(call.tokens) = 1
  /\ call.tokens[1].type = "function"
  /\ IsRef(root)
  /\ \E e \in {OwnEntry(call.pre, root, call.tokens[1].name)} :
       e # <<>> /\ IsFunction(call.pre, e[1]) /\ call.pre[e[1].n].fn = "bump"
  /\ call.log = <<>>
  /\ heap = call.pre

\* C9: when the traversal meets null or undefined before the last token has
\* been applied, LGet returns the default.
C9_NullishGivesDefault ==
  (call.op = "LGet" /\ MeetsNullish(call.pre, root, call.tokens))
    => call.ret = call.arg

C9_Witness ==
  /\ call.op = "LGet"
  /\ IsRef(root)
  /\ Len(call.tokens) = 3
  /\ MeetsNullish(call.pre, root, call.tokens)
  /\ call.arg = Str(<<"d">>)
  /\ call.ret = call.arg

\* C10: for an object or array root and a property/index path that addresses
\* a present value (null and the falsy 0, '' and false included), LGet
\* returns that value whatever the default.
C10_PresentValueReturned ==
  (/\ call.op = "LGet"
   /\ IsRef(root)
   /\ PropIndexOnly(call.tokens))
    => \A e \in {Addressed(call.pre, root, call.tokens, 1)} :
         (e # <<>> /\ e[1] # Undefined) => call.ret = e[1]

C10_Witness ==
  /\ call.op = "LGet"
  /\ IsRef(root)
  /\ Len(call.tokens) = 3
  /\ PropIndexOnly(call.tokens)
  /\ Addressed(call.pre, root, call.tokens, 1) = <<Bool(FALSE)>>
  /\ call.arg = Str(<<"d">>)
  /\ call.ret = Bool(FALSE)

---------------------------------------------------------------------------
(* The parsers on their own: one call of tokenizePath, parseArguments or   *)
(* parseValue on a string                                                  *)

\* The strings over the characters cs of at most n characters.
RECURSIVE StringsUpTo(_, _)
StringsUpTo(cs, n) ==
  IF n = 0 THEN {<<>>}
  ELSE LET shorter == StringsUpTo(cs, n - 1) IN
       shorter \cup {Append(p, c) : p \in shorter, c \in cs}

\* The characters bracket contents are made of, and their greatest length.
ContentChars == {"0", "1", "3", "a", "b", "x", " ", "-", "."}

MaxContent == 3

\* "ab", "007", "1e3", "1e-2", " 3 ", "0x1F", "0o17", "+1.5", "Infinity", "3px",
\* "1ex"
ExtraContents ==
  { <<"a", "b">>, <<"0", "0", "7">>, <<"1", "e", "3">>, <<"1", "e", "-", "2">>,
    <<" ", "3", " ">>, <<"0", "x", "1", "F">>, <<"0", "o", "1", "7">>,
    <<"+", "1", ".", "5">>, InfinityChars, <<"3", "p", "x">>, <<"1", "e", "x">> }

Contents == StringsUpTo(ContentChars, MaxContent) \cup ExtraContents

\* "x[" content "]"
IndexPath(content) == <<"x", "[">> \o content \o <<"]">>

TokenizerPaths == {IndexPath(content) : content \in Contents}

\* The record of a call of a parser: its input string and its result.
ParseRecord(op, input, result) == [op |-> op, input |-> input, result |-> result]

InitParse ==
  /\ heap = <<>>
  /\ root = Undefined
  /\ pc = "ready"
  /\ call = ParseRecord("none", <<>>, <<>>)
  /\ setex = <<>>
  /\ form = <<>>
  /\ scan = <<>>
  /\ run = <<>>
  /\ meta = <<>>
  /\ acts = <<>>
  /\ queue = <<>>

CallTokenizePath ==
  /\ pc = "ready"
  /\ \E path \in TokenizerPaths :
       call' = ParseRecord("tokenizePath", path, tokenizePath(path))
  /\ pc' = "returned"
  /\ UNCHANGED <<heap, root, setex, form, scan, run, meta, acts, queue>>

\* The characters argument strings are made of, and their greatest length.
ArgChars == {"a", "1", ",", "\"", "'", "(", ")", "[", "]", " ", "\\"}

MaxArgLen == 4

\* '"a,b", 2'
\* "1, 'two', [3,4], true, null"
\* 'f(1,2),3'
\* '[1,2],[3]'
\* "'a\\',b',c"
\* ' , 1 ,'
\* '{"a":1,"b":2}'
ExtraArgs ==
  { <<"\"", "a", ",", "b", "\"", ",", " ", "2">>,
    <<"1", ",", " ", "'", "t", "w", "o", "'", ",", " ", "[", "3", ",", "4", "]", ",", " ", "t", "r", "u", "e", ",", " ", "n", "u", "l", "l">>,
    <<"f", "(", "1", ",", "2", ")", ",", "3">>,
    <<"[", "1", ",", "2", "]", ",", "[", "3", "]">>,
    <<"'", "a", "\\", "'", ",", "b", "'", ",", "c">>,
    <<" ", ",", " ", "1", " ", ",">>,
    <<"{", "\"", "a", "\"", ":", "1", ",", "\"", "b", "\"", ":", "2", "}">> }

ArgStrings == StringsUpTo(ArgChars, MaxArgLen) \cup ExtraArgs

\* The characters value strings are made of, and their greatest length.
ValueChars == {"\"", "'", "[", "]", "{", "}", "1", "0", "x", " ", "-", "."}

MaxValueLen == 3

\* 'true'
\* 'false'
\* 'null'
\* 'undefined'
\* ' true '
\* "'true'"
\* '[3,4]'
\* '[3,4'
\* '{"a":1}'
\* '{a:1}'
\* '{"b":1,"0":2}'
\* '1e3'
\* '1.5'
\* '-0.5'
\* '0x1F'
\* 'abc'
\* 'nul'
\* 'True'
\* '"[1]"'
\* '[true, null]'
\* 'Infinity'
\* '\t7\n'
\* '3em'
\* '[1e1.5]'
ExtraValues ==
  { <<"t", "r", "u", "e">>,
    <<"f", "a", "l", "s", "e">>,
    <<"n", "u", "l", "l">>,
    <<"u", "n", "d", "e", "f", "i", "n", "e", "d">>,
    <<" ", "t", "r", "u", "e", " ">>,
    <<"'", "t", "r", "u", "e", "'">>,
    <<"[", "3", ",", "4", "]">>,
    <<"[", "3", ",", "4">>,
    <<"{", "\"", "a", "\"", ":", "1", "}">>,
    <<"{", "a", ":", "1", "}">>,
    <<"{", "\"", "b", "\"", ":", "1", ",", "\"", "0", "\"", ":", "2", "}">>,
    <<"1", "e", "3">>,
    <<"1", ".", "5">>,
    <<"-", "0", ".", "5">>,
    <<"0", "x", "1", "F">>,
    <<"a", "b", "c">>,
    <<"n", "u", "l">>,
    <<"T", "r", "u", "e">>,
    <<"\"", "[", "1", "]", "\"">>,
    <<"[", "t", "r", "u", "e", ",", " ", "n", "u", "l", "l", "]">>,
    <<"I", "n", "f", "i", "n", "i", "t", "y">>,
    <<"\t", "7", "\n">>,
    <<"3", "e", "m">>,
    <<"[", "1", "e", "1", ".", "5", "]">> }

ValueStrings == StringsUpTo(ValueChars, MaxValueLen) \cup ExtraValues

CallParseArguments ==
  /\ pc = "ready"
  /\ \E argsStr \in ArgStrings :
       call' = ParseRecord("parseArguments", argsStr, parseArguments(argsStr))
  /\ pc' = "returned"
  /\ UNCHANGED <<heap, root, setex, form, scan, run, meta, acts, queue>>

CallParseValue ==
  /\ pc = "ready"
  /\ \E valueStr \in ValueStrings :
       call' = ParseRecord("parseValue", valueStr, parseValue(valueStr))
  /\ pc' = "returned"
  /\ UNCHANGED <<heap, root, setex, form, scan, run, meta, acts, queue>>

NextParse == CallTokenizePath \/ CallParseArguments \/ CallParseValue

SpecParse == InitParse /\ [][NextParse]_vars

---------------------------------------------------------------------------
(* Properties of the parsers                                               *)

\* m is the mantissa of a decimal literal: digits with at most one point and
\* at least one digit.
IsMantissa(m) ==
  /\ \A i \in 1..Len(m) : IsDigit(m[i]) \/ m[i] = "."
  /\ Cardinality({i \in 1..Len(m) : m[i] = "."}) <= 1
  /\ \E i \in 1..Len(m) : IsDigit(m[i])

\* x is an exponent part: e or E, an optional sign, at least one digit.
IsExponentPart(x) ==
  /\ x # <<>>
  /\ x[1] \in {"e", "E"}
  /\ \E r \in {IF Len(x) >= 2 /\ x[2] \in {"+", "-"} THEN SubSeq(x, 3, Len(x))
               ELSE Tail(x)} : r # <<>> /\ AllDigits(r)

\* t is a base-10 numeral: an optional sign, a mantissa, an optional exponent.
IsSignedDecimal(t) ==
  \E u \in {IF t # <<>> /\ t[1] \in {"+", "-"} THEN Tail(t) ELSE t} :
    \E k \in 0..Len(u) :
      /\ IsMantissa(SubSeq(u, 1, k))
      /\ k = Len(u) \/ IsExponentPart(SubSeq(u, k + 1, Len(u)))

\* t is Infinity with an optional sign.
IsSignedInfinity(t) ==
  t \in {InfinityChars, <<"+">> \o InfinityChars, <<"-">> \o InfinityChars}

\* t is an unsigned hexadecimal, octal or binary literal.
IsRadixText(t) ==
  /\ Len(t) > 2
  /\ t[1] = "0"
  /\ \/ t[2] \in {"x", "X"} /\ \A i \in 3..Len(t) : HexVal(t[i]) < 16
     \/ t[2] \in {"o", "O"} /\ \A i \in 3..Len(t) : HexVal(t[i]) < 8
     \/ t[2] \in {"b", "B"} /\ \A i \in 3..Len(t) : HexVal(t[i]) < 2

\* The bracket content of the path "x[...]" a call of tokenizePath was given.
ContentOf(path) == SubSeq(path, 3, Len(path) - 1)

\* C11 (as stated): the tokenizer gives "x[s]" an Index token whose key is a
\* number if and only if s (white space at its ends aside) is a base-10
\* numeral, and otherwise the raw substring s.
C11_Base10KeyTyping ==
  call.op = "tokenizePath" =>
    /\ Len(call.result) = 2
    /\ call.result[2].type = "index"
    /\ call.result[2].value.t = "number" <=> IsSignedDecimal(Trim(ContentOf(call.input)))
    /\ call.result[2].value.t # "number" =>
         call.result[2].value = Str(ContentOf(call.input))

\* C11 (amended): the key of the Index token of "x[s]" is a number if and only
\* if s, white space at its ends aside, is empty, a base-10 numeral, a signed
\* Infinity or an unsigned 0x, 0o or 0b literal (Number(s) is not NaN); a
\* string of digits gives its value ("x[3]" gives 3) and the empty content
\* gives 0; otherwise the key is exactly the raw substring s ("x[ab]" gives
\* "ab").
C11_NumericKeyTyping ==
  call.op = "tokenizePath" =>
    /\ call.result[1] = PropertyToken(<<"x">>)
    /\ Len(call.result) = 2
    /\ call.result[2].type = "index"
    /\ \E c \in {ContentOf(call.input)} : \E v \in {call.result[2].value} :
         /\ v.t = "number" <=>
              \/ Trim(c) = <<>>
              \/ IsSignedDecimal(Trim(c))
              \/ IsSignedInfinity(Trim(c))
              \/ IsRadixText(Trim(c))
         /\ v.t # "number" => v = Str(c)
         /\ (c # <<>> /\ AllDigits(c)) => v = Num(DecValue(c))
         /\ Trim(c) = <<>> => v = Num(0)
         /\ c = <<"a", "b">> => v = Str(<<"a", "b">>)

\* "x[0x1F]" gives the numeric key 31.
C11_Witness ==
  /\ call.op = "tokenizePath"
  /\ call.input = IndexPath(<<"0", "x", "1", "F">>)
  /\ call.result = <<PropertyToken(<<"x">>), IndexToken(Num(31))>>

\* Quote mode of the argument scan before the character at i: the active quote
\* character, "" when off.  A quote met when the mode is off enters it; the
\* same quote not preceded by a backslash leaves it.
RECURSIVE QuoteBefore(_, _)
QuoteAfter(s, q, k) ==
  IF q = "" THEN (IF s[k] \in {"\"", "'"} THEN s[k] ELSE "")
  ELSE IF s[k] = q /\ ~(k > 1 /\ s[k - 1] = "\\") THEN ""
  ELSE q

QuoteBefore(s, i) == IF i <= 1 THEN "" ELSE QuoteAfter(s, QuoteBefore(s, i - 1), i - 1)

\* The characters c met outside quote mode before position i.
Outside(s, i, c) == {j \in 1..(i - 1) : s[j] = c /\ QuoteBefore(s, j) = ""}

\* Openers minus closers outside quote mode before position i.
DepthBefore(s, i, open, close) ==
  Cardinality(Outside(s, i, open)) - Cardinality(Outside(s, i, close))

\* The commas met with quote mode off and both depths zero.
TopCommas(s) ==
  {i \in 1..Len(s) : /\ s[i] = ","
                     /\ QuoteBefore(s, i) = ""
                     /\ DepthBefore(s, i, "(", ")") = 0
                     /\ DepthBefore(s, i, "[", "]") = 0}

\* The position of the k-th such comma; 0 before the first, Len(s) + 1 after
\* the last.
CommaNo(s, k) ==
  IF k = 0 THEN 0
  ELSE IF k > Cardinality(TopCommas(s)) THEN Len(s) + 1
  ELSE CHOOSE i \in TopCommas(s) : Cardinality({j \in TopCommas(s) : j <= i}) = k

\* The text of the k-th field: what lies between comma k - 1 and comma k.
FieldNo(s, k) == SubSeq(s, CommaNo(s, k - 1) + 1, CommaNo(s, k) - 1)

\* The number of values expected: one per top-level comma, one more when the
\* text after the last of them is not blank.
FieldCount(s) ==
  Cardinality(TopCommas(s))
    + (IF Trim(FieldNo(s, Cardinality(TopCommas(s)) + 1)) # <<>> THEN 1 ELSE 0)

QuotedCommaText == <<"\"", "a", ",", "b", "\"", ",", " ", "2">>

\* C12: in parseArguments a comma ends the current field if and only if quote
\* mode is off and the paren depth and the bracket depth are both zero: the
\* result has one value per such comma (and one for a non-blank rest), a
\* field in quotes comes back with the commas it holds, and "a,b" in double quotes followed by
\* ", 2" gives ["a,b", 2].
C12_CommaTerminatesAtTopLevel ==
  call.op = "parseArguments" =>
    /\ Len(call.result) = FieldCount(call.input)
    /\ \A k \in 1..Len(call.result) :
         \E f \in {Trim(FieldNo(call.input, k))} :
           (f # <<>> /\ f[1] \in {"\"", "'"} /\ f[Len(f)] = f[1]) =>
             call.result[k] = Str(SubSeq(f, 2, Len(f) - 1))
    /\ call.input = QuotedCommaText =>
         call.result = <<Str(<<"a", ",", "b">>), Num(2)>>

C12_Witness ==
  /\ call.op = "parseArguments"
  /\ call.input = QuotedCommaText
  /\ call.result = <<Str(<<"a", ",", "b">>), Num(2)>>
  /\ TopCommas(call.input) = {6}


MixedArgsText ==
  <<"1", ",", " ", "'", "t", "w", "o", "'", ",", " ", "[", "3", ",", "4", "]",
    ",", " ", "t", "r", "u", "e", ",", " ", "n", "u", "l", "l">>

MixedArgsValues ==
  <<Num(1), Str(<<"t", "w", "o">>), ArrLit(<<Num(3), Num(4)>>), Bool(TRUE), Null>>

\* C13: parseArguments returns the values in field order, left to right: a
\* blank input gives the empty sequence; the k-th field ended by a top-level
\* comma gives, at place k, parseValue of the trimmed field; the rest after
\* the last such comma gives one more value when it is not blank; and
\* "1, 'two', [3,4], true, null" gives [1, "two", [3,4], true, null].
C13_ValuesInFieldOrder ==
  call.op = "parseArguments" =>
    /\ Trim(call.input) = <<>> => call.result = <<>>
    /\ Len(call.result) \in {Cardinality(TopCommas(call.input)),
                             Cardinality(TopCommas(call.input)) + 1}
    /\ \A k \in 1..Len(call.result) :
         call.result[k] = parseValue(Trim(FieldNo(call.input, k)))
    /\ Len(call.result) = Cardinality(TopCommas(call.input)) + 1
         <=> Trim(FieldNo(call.input, Cardinality(TopCommas(call.input)) + 1)) # <<>>
    /\ call.input = MixedArgsText => call.result = MixedArgsValues

C13_Witness ==
  /\ call.op = "parseArguments"
  /\ call.input = MixedArgsText
  /\ call.result = MixedArgsValues
  /\ Cardinality(TopCommas(call.input)) = 4


\* The recognition rules of parseValue on a trimmed text, by number: the
\* first of the nine that matches.
IsNumericText(t) == IsSignedDecimal(t) \/ IsSignedInfinity(t) \/ IsRadixText(t)

Wrapped(t, open, close) == t # <<>> /\ t[1] = open /\ t[Len(t)] = close

RuleOf(t) ==
  IF t = <<>> THEN 1
  ELSE IF Wrapped(t, "\"", "\"") \/ Wrapped(t, "'", "'") THEN 2
  ELSE IF Wrapped(t, "[", "]") THEN 3
  ELSE IF Wrapped(t, "{", "}") THEN 4
  ELSE IF IsNumericText(t) THEN 5
  ELSE IF t \in {<<"t", "r", "u", "e">>, <<"f", "a", "l", "s", "e">>} THEN 6
  ELSE IF t = <<"n", "u", "l", "l">> THEN 7
  ELSE IF t = <<"u", "n", "d", "e", "f", "i", "n", "e", "d">> THEN 8
  ELSE 9

\* What the rule of that number gives for the trimmed text t.
RuleGives(rule, t, v) ==
  CASE rule = 1 -> v = Str(<<>>)
    [] rule = 2 -> v = Str(SubSeq(t, 2, Len(t) - 1))
    [] rule = 3 -> IF JSONParse(t).ok THEN v.t = "arraylit" /\ v = JSONParse(t).v
                   ELSE v = Str(t)
    [] rule = 4 -> IF JSONParse(t).ok THEN v.t = "objectlit" /\ v = JSONParse(t).v
                   ELSE v = Str(t)
    [] rule = 5 -> v.t = "number" /\ [nan |-> FALSE, n |-> v.n, d |-> v.d] = Number(t)
    [] rule = 6 -> v = Bool(t[1] = "t")
    [] rule = 7 -> v = Null
    [] rule = 8 -> v = Undefined
    [] rule = 9 -> v = Str(t)

BrokenObjectText == <<"{", "a", ":", "1", "}">>

\* C14: parseValue gives a value for every input string, the one of the first
\* rule that matches the trimmed text: empty, in quotes (the inner text),
\* [...] or {...} (the structured parse, or the trimmed text when it fails),
\* numeric (the number), true or false, null, undefined (absent), and
\* otherwise the trimmed text; it never throws.
C14_FirstRuleWins ==
  call.op = "parseValue" =>
    /\ RuleGives(RuleOf(Trim(call.input)), Trim(call.input), call.result)
    /\ call.result.t \in {"string", "arraylit", "objectlit", "number", "boolean",
                          "null", "undefined"}
    /\ call.input = <<"\"", "[", "1", "]", "\"">> => call.result = Str(<<"[", "1", "]">>)
    /\ call.input = <<"[", "3", ",", "4", "]">> => call.result = ArrLit(<<Num(3), Num(4)>>)
    /\ call.input = <<"1", ".", "5">> => call.result = NumberValue([n |-> 15, d |-> 1])

C14_Witness ==
  /\ call.op = "parseValue"
  /\ call.input = BrokenObjectText
  /\ RuleOf(Trim(call.input)) = 4
  /\ ~JSONParse(call.input).ok
  /\ call.result = Str(BrokenObjectText)


---------------------------------------------------------------------------
(* Properties of function calls and of the prefix walk                     *)

\* The tokens before the last one.
PrefixTokens(tokens) == SubSeq(tokens, 1, Len(tokens) - 1)

\* The own entry e is a function object of h.
IsFunctionEntry(h, e) == e # <<>> /\ IsFunction(h, e[1])

\* What LGet returns when the traversal ends on v.
OrDefault(v, defaultValue) == IF v = Undefined THEN defaultValue ELSE v

\* The call named by the last token, on the receiver cur whose member of that
\* name is the entry m: a function is invoked once, with cur as receiver and
\* the arguments of the token, and its return value is the result; anything
\* else gives the default and invokes nothing.
CallOnReceiver(c, token, cur, m) ==
  /\ IsFunctionEntry(c.pre, m) =>
       /\ c.log = <<Invocation(Len(c.tokens), c.pre[m[1].n].fn, cur, token.args)>>
       /\ \A r \in {Apply(c.pre, c.pre[m[1].n].fn, cur, token.args)} :
            r.ok => c.ret = OrDefault(r.v, c.arg)
  /\ (~IsFunctionEntry(c.pre, m) /\ m # <<ThrowingGetter>>) =>
       /\ c.log = <<>>
       /\ c.ret = c.arg

\* The traversal after a call on the root as first token: it goes on from the
\* value r the call returned, in the graph the call left.
GoesOnFrom(c, r) ==
  (r.ok /\ IsRef(r.v)) =>
    \A e \in {Addressed(r.h, r.v, c.tokens, 2)} :
      (e # <<>> /\ e[1] # Undefined) => c.ret = e[1]

\* C15: in LGet a FunctionCall token invokes the member of the current value
\* that the token names, with the current value as receiver and the parsed
\* arguments in order, and the traversal goes on with what the call returned;
\* a member that is no function gives the default; and "name.upper()" on
\* {name: {name: 'ab', upper}} returns 'AB'.
C15_CallInvokesMember ==
  (call.op = "LGet" /\ IsRef(root) /\ call.tokens # <<>>) =>
    /\ (/\ call.tokens[Len(call.tokens)].type = "function"
        /\ PropIndexOnly(PrefixTokens(call.tokens))) =>
         \A cur \in {Addressed(call.pre, root, PrefixTokens(call.tokens), 1)} :
           (cur # <<>> /\ IsRef(cur[1])) =>
             CallOnReceiver(call, call.tokens[Len(call.tokens)], cur[1],
                            OwnEntry(call.pre, cur[1], call.tokens[Len(call.tokens)].name))
    /\ (/\ call.tokens[1].type = "function"
        /\ Len(call.tokens) > 1
        /\ \A i \in 2..Len(call.tokens) : call.tokens[i].type # "function") =>
         \A m \in {OwnEntry(call.pre, root, call.tokens[1].name)} :
           IsFunctionEntry(call.pre, m) =>
             GoesOnFrom(call, Apply(call.pre, call.pre[m[1].n].fn, root, call.tokens[1].args))
    /\ (call.path = PathUpper /\ call.pre = RootNamed.heap) =>
         call.ret = Str(<<"A", "B">>)
    /\ (call.path = PathTwoArgs /\ call.pre = RootNamed.heap) =>
         /\ call.log = <<Invocation(1, "first", root, <<Num(5), Str(<<"x">>)>>)>>
         /\ call.ret = Num(5)

C15_Witness ==
  /\ call.op = "LGet"
  /\ call.path = PathUpper
  /\ call.pre = RootNamed.heap
  /\ call.arg = Str(<<"d">>)
  /\ call.log = <<Invocation(2, "upper", Ref(2), <<>>)>>
  /\ call.ret = Str(<<"A", "B">>)


\* The members the first n tokens pass through from x in h are all present:
\* every step of the read gives a value that is neither null nor undefined.
AllPresent(h, x, tokens, n) ==
  \A j \in 1..n :
    \E r \in {ValueAfter(h, x, tokens, 1, j)} : r.ok /\ ~IsNullish(r.v)

\* Every Index token among the first n is applied to an array.
IndexOnArrays(h, x, tokens, n) ==
  \A j \in 1..n :
    tokens[j].type = "index" =>
      \E r \in {ValueAfter(h, x, tokens, 1, j - 1)} : r.ok /\ IsArray(r.h, r.v)

\* The first loop of setValueAtPath reached the last token with the container
\* w.cur, and LGet gives that value for the path made of the prefix tokens,
\* whatever the default.
SameAsRead(c, w) ==
  /\ w.st = "ok"
  /\ \E k \in 1..Len(c.path) :
       /\ tokenizePath(SubSeq(c.path, 1, k)) = PrefixTokens(c.tokens)
       /\ \A d \in Defaults :
            LGet(c.pre, root, SubSeq(c.path, 1, k), d).ret = w.cur

\* C20 (as stated): when the members of the prefix are all present, the
\* container on which LSet applies the last token is the value LGet returns
\* for the path of the prefix tokens.
C20_PrefixWalkAsRead ==
  (/\ call.op = "LSet"
   /\ call.st # "guard"
   /\ Len(call.tokens) > 1
   /\ AllPresent(call.pre, root, call.tokens, Len(call.tokens) - 1))
    => SameAsRead(call, walkPrefix(call.tokens, 1, root, call.pre, <<>>))

\* C20 (amended): when the members of the prefix are all present and every
\* Index token of the prefix is applied to an array, the container on which
\* LSet applies the last token is the value LGet returns for the path of the
\* prefix tokens, for Property, Index and FunctionCall tokens alike.
C20_PrefixWalkAsReadOnArrays ==
  (/\ call.op = "LSet"
   /\ call.st # "guard"
   /\ Len(call.tokens) > 1
   /\ AllPresent(call.pre, root, call.tokens, Len(call.tokens) - 1)
   /\ IndexOnArrays(call.pre, root, call.tokens, Len(call.tokens) - 1))
    => SameAsRead(call, walkPrefix(call.tokens, 1, root, call.pre, <<>>))

C20_Witness ==
  /\ call.op = "LSet"
  /\ call.pre = RootFunctions.heap
  /\ call.path = <<".", "h", "(", ")", ".", "a", ".", "b">>
  /\ AllPresent(call.pre, root, call.tokens, 2)
  /\ walkPrefix(call.tokens, 1, root, call.pre, <<>>).cur = Ref(2)
  /\ LGet(call.pre, root, <<".", "h", "(", ")", ".", "a">>, Undefined).ret = Ref(2)
  /\ call.st = "value"
  /\ OwnEntry(heap, Ref(2), Kb) = <<call.arg>>


---------------------------------------------------------------------------
(* SetEx: a Set of objects with a Map from the key of each to the object   *)

\* The objects added are told apart by identity, 1..NumObjects.  They have
\* two properties a collection can be keyed by: under "id" the first two
\* objects have the same value and the others another one, under "name" the
\* objects of odd number have the same value and the others another one.
NumObjects == 3

Objects == 1..NumObjects

KeyNames == {"id", "name"}

Keys == {"p", "q"}

\* value[this._key]
KeyOf(key, value) ==
  IF key = "id" THEN (IF value <= 2 THEN "p" ELSE "q")
  ELSE (IF value % 2 = 1 THEN "p" ELSE "q")

\* A SetEx: items are the elements of the Set in insertion order, map is
\* this._map (0 where the key has no entry), key is this._key, the other
\* fields are the options kept; a callback is TRUE when one was given.  The callbacks of the
\* model only record their invocation.
SetExObject(option) ==
  [ items |-> <<>>,
    map |-> [k \in Keys |-> 0],
    key |-> option.key,
    onExist1 |-> option.onExist1,
    onNotExist1 |-> option.onNotExist1,
    replaceIfExits1 |-> option.replaceIfExits1,
    onExist2 |-> option.onExist2,
    onNotExist2 |-> option.onNotExist2,
    replaceIfExits2 |-> option.replaceIfExits2 ]

\* One invocation of a callback: its name and arguments (oldData is 0 for
\* the callbacks that take newData alone).
Invoked(cb, oldData, newData) == [cb |-> cb, oldData |-> oldData, newData |-> newData]

\* What a method leaves: the object, the invocations so far, and the values
\* it has returned so far (one for add2, one per value for addAll2).
Done(this, ev, ret) == [this |-> this, ev |-> ev, ret |-> ret]

\* Set.prototype.delete and Set.prototype.add on the elements.
superDelete(items, value) == SelectSeq(items, LAMBDA x : x # value)

superAdd(items, value) ==
  IF \E i \in 1..Len(items) : items[i] = value THEN items ELSE Append(items, value)

\* if (cb) cb(...)
invoke(given, ev, e) == IF given THEN Append(ev, e) ELSE ev

\* add, from if (flag === false) on, flag being false.
addNew(this, value, ev, ret) ==
  Done([this EXCEPT !.items = superAdd(@, value), !.map[KeyOf(this.key, value)] = value],
       invoke(this.onNotExist1, ev, Invoked("onNotExist1", 0, value)),
       ret)

\* add, inside if (item), after the call of onExist1.
addFound(this, value, item, ev, ret) ==
  IF this.replaceIfExits1
  THEN addNew([this EXCEPT !.items = superDelete(@, item), !.map[KeyOf(this.key, value)] = 0],
              value, ev, ret)
  ELSE Done(this, ev, ret)

add(this, value, ev, ret) ==
  IF this.map[KeyOf(this.key, value)] # 0
  THEN addFound(this, value, this.map[KeyOf(this.key, value)],
                invoke(this.onExist1, ev,
                       Invoked("onExist1", this.map[KeyOf(this.key, value)], value)),
                ret)
  ELSE addNew(this, value, ev, ret)

RECURSIVE addAllNext(_, _, _)
addAllNext(values, i, r) ==
  IF i > Len(values) THEN r
  ELSE addAllNext(values, i + 1, add(r.this, values[i], r.ev, r.ret))

addAll(this, values, ev) == addAllNext(values, 1, Done(this, ev, <<>>))

\* add2, from if (flag === false) on, flag being false; tmp is returned.
add2New(this, value, tmp, ev, ret) ==
  Done([this EXCEPT !.items = superAdd(@, value), !.map[KeyOf(this.key, value)] = value],
       invoke(this.onNotExist2, ev, Invoked("onNotExist2", 0, value)),
       Append(ret, tmp))

\* add2, inside if (item), after the call of onExist2: super.delete(value).
add2Found(this, value, item, ev, ret) ==
  IF this.replaceIfExits2
  THEN add2New([this EXCEPT !.items = superDelete(@, value), !.map[KeyOf(this.key, value)] = 0],
               value, value, ev, ret)
  ELSE Done(this, ev, Append(ret, item))

add2(this, value, ev, ret) ==
  IF this.map[KeyOf(this.key, value)] # 0
  THEN add2Found(this, value, this.map[KeyOf(this.key, value)],
                 invoke(this.onExist2, ev,
                        Invoked("onExist2", this.map[KeyOf(this.key, value)], value)),
                 ret)
  ELSE add2New(this, value, value, ev, ret)

RECURSIVE addAll2Next(_, _, _)
addAll2Next(values, i, r) ==
  IF i > Len(values) THEN r
  ELSE addAll2Next(values, i + 1, add2(r.this, values[i], r.ev, r.ret))

addAll2(this, values) == addAll2Next(values, 1, Done(this, <<>>, <<>>))

\* delete(_key) gives [this, ok]: ok is the boolean returned.
delete(this, key) ==
  IF this.map[key] # 0
  THEN [this |-> [this EXCEPT !.items = superDelete(@, this.map[key]), !.map[key] = 0],
        ok |-> TRUE]
  ELSE [this |-> this, ok |-> FALSE]

\* Set.prototype.clear, which SetEx inherits: the elements are removed, the
\* map is left as it is.
clear(this) == [this EXCEPT !.items = <<>>]

\* The setters of onExist1, onNotExist1, onExist2 and onNotExist2 (given is
\* TRUE for a function, FALSE for undefined), of replaceIfExits1 and
\* replaceIfExits2, and of key.
setCallback(this, name, given) == [this EXCEPT ![name] = given]

setReplace(this, name, flag) == [this EXCEPT ![name] = flag]

setKey(this, key) == [this EXCEPT !.key = key]

\* reset(option): the collection is emptied, an option given and truthy
\* replaces the one kept (key "" stands for no key given), and the values are
\* added.
reset(this, option, values) ==
  addAll([ items |-> <<>>,
           map |-> [k \in Keys |-> 0],
           key |-> IF option.key # "" THEN option.key ELSE this.key,
           onExist1 |-> IF option.onExist1 THEN TRUE ELSE this.onExist1,
           onNotExist1 |-> IF option.onNotExist1 THEN TRUE ELSE this.onNotExist1,
           replaceIfExits1 |-> IF option.replaceIfExits1 THEN TRUE ELSE this.replaceIfExits1,
           onExist2 |-> IF option.onExist2 THEN TRUE ELSE this.onExist2,
           onNotExist2 |-> IF option.onNotExist2 THEN TRUE ELSE this.onNotExist2,
           replaceIfExits2 |-> IF option.replaceIfExits2 THEN TRUE ELSE this.replaceIfExits2 ],
         values, <<>>)

\* The options of the model: the key, each replace flag either way, the four
\* callbacks given or not.
Option(key, cb, r1, r2) ==
  [ key |-> key, onExist1 |-> cb, onNotExist1 |-> cb, replaceIfExits1 |-> r1,
    onExist2 |-> cb, onNotExist2 |-> cb, replaceIfExits2 |-> r2 ]

\* The options given to the constructor, and those given to reset.
Options ==
  {Option(key, cb, r1, r2) : key \in KeyNames, cb \in BOOLEAN, r1 \in BOOLEAN, r2 \in BOOLEAN}

ResetOptions ==
  {Option(key, cb, r1, r2) :
     key \in KeyNames \cup {""}, cb \in BOOLEAN, r1 \in BOOLEAN, r2 \in BOOLEAN}

CallbackNames == {"onExist1", "onNotExist1", "onExist2", "onNotExist2"}

ReplaceNames == {"replaceIfExits1", "replaceIfExits2"}

\* The lists of values given to addAll, addAll2 and reset.
ValueLists ==
  {<<>>} \cup {<<v>> : v \in Objects} \cup {<<v, w>> : v \in Objects, w \in Objects}

\* The record of a call on the collection: the method, the values or the key
\* it was given, what it returned (values for add2 and addAll2, ok for
\* delete), the callbacks invoked in order, and the collection before.  plain
\* tells that neither clear() nor the setter of key has been called on the
\* collection so far, no is the number of calls made on it.
SetCall(op, values, key, ret, ok, ev, pre, plain, no) ==
  [op |-> op, values |-> values, key |-> key, ret |-> ret, ok |-> ok,
   ev |-> ev, pre |-> pre, plain |-> plain, no |-> no]

\* The longest sequence of calls made on one collection.
MaxCalls == 2

\* new SetEx(option) without values.
InitSetEx ==
  /\ heap = <<>>
  /\ root = Undefined
  /\ pc = "ready"
  /\ form = <<>>
  /\ \E option \in Options : setex = SetExObject(option)
  /\ call = SetCall("new", <<>>, "", <<>>, FALSE, <<>>, <<>>, TRUE, 0)
  /\ scan = <<>>
  /\ run = <<>>
  /\ meta = <<>>
  /\ acts = <<>>
  /\ queue = <<>>

CallAdd ==
  /\ call.no < MaxCalls
  /\ \E value \in Objects :
     \E r \in {add(setex, value, <<>>, <<>>)} :
       /\ setex' = r.this
       /\ call' = SetCall("add", <<value>>, "", <<>>, FALSE, r.ev, setex, call.plain, call.no + 1)
  /\ UNCHANGED <<heap, root, pc, form, scan, run, meta, acts, queue>>

CallAddAll ==
  /\ call.no < MaxCalls
  /\ \E values \in ValueLists :
     \E r \in {addAll(setex, values, <<>>)} :
       /\ setex' = r.this
       /\ call' = SetCall("addAll", values, "", <<>>, FALSE, r.ev, setex, call.plain, call.no + 1)
  /\ UNCHANGED <<heap, root, pc, form, scan, run, meta, acts, queue>>

CallAdd2 ==
  /\ call.no < MaxCalls
  /\ \E value \in Objects :
     \E r \in {add2(setex, value, <<>>, <<>>)} :
       /\ setex' = r.this
       /\ call' = SetCall("add2", <<value>>, "", r.ret, FALSE, r.ev, setex, call.plain, call.no + 1)
  /\ UNCHANGED <<heap, root, pc, form, scan, run, meta, acts, queue>>

CallAddAll2 ==
  /\ call.no < MaxCalls
  /\ \E values \in ValueLists :
     \E r \in {addAll2(setex, values)} :
       /\ setex' = r.this
       /\ call' = SetCall("addAll2", values, "", r.ret, FALSE, r.ev, setex, call.plain, call.no + 1)
  /\ UNCHANGED <<heap, root, pc, form, scan, run, meta, acts, queue>>

CallDelete ==
  /\ call.no < MaxCalls
  /\ \E key \in Keys :
     \E r \in {delete(setex, key)} :
       /\ setex' = r.this
       /\ call' = SetCall("delete", <<>>, key, <<>>, r.ok, <<>>, setex, call.plain, call.no + 1)
  /\ UNCHANGED <<heap, root, pc, form, scan, run, meta, acts, queue>>

CallReset ==
  /\ call.no < MaxCalls
  /\ \E option \in ResetOptions, values \in {<<>>, <<1, 2>>} :
     \E r \in {reset(setex, option, values)} :
       /\ setex' = r.this
       /\ call' = SetCall("reset", values, "", <<>>, FALSE, r.ev, setex, call.plain, call.no + 1)
  /\ UNCHANGED <<heap, root, pc, form, scan, run, meta, acts, queue>>

CallClear ==
  /\ call.no < MaxCalls
  /\ setex' = clear(setex)
  /\ call' = SetCall("clear", <<>>, "", <<>>, FALSE, <<>>, setex, FALSE, call.no + 1)
  /\ UNCHANGED <<heap, root, pc, form, scan, run, meta, acts, queue>>

CallSetCallback ==
  /\ call.no < MaxCalls
  /\ \E name \in CallbackNames, given \in BOOLEAN :
       /\ setex' = setCallback(setex, name, given)
       /\ call' = SetCall(name, <<>>, "", <<>>, FALSE, <<>>, setex, call.plain, call.no + 1)
  /\ UNCHANGED <<heap, root, pc, form, scan, run, meta, acts, queue>>

CallSetReplace ==
  /\ call.no < MaxCalls
  /\ \E name \in ReplaceNames, flag \in BOOLEAN :
       /\ setex' = setReplace(setex, name, flag)
       /\ call' = SetCall(name, <<>>, "", <<>>, FALSE, <<>>, setex, call.plain, call.no + 1)
  /\ UNCHANGED <<heap, root, pc, form, scan, run, meta, acts, queue>>

CallSetKey ==
  /\ call.no < MaxCalls
  /\ \E key \in KeyNames :
       /\ setex' = setKey(setex, key)
       /\ call' = SetCall("key", <<>>, key, <<>>, FALSE, <<>>, setex, FALSE, call.no + 1)
  /\ UNCHANGED <<heap, root, pc, form, scan, run, meta, acts, queue>>

NextSetEx ==
  \/ CallAdd \/ CallAddAll \/ CallAdd2 \/ CallAddAll2 \/ CallDelete \/ CallReset
  \/ CallClear \/ CallSetCallback \/ CallSetReplace \/ CallSetKey

SpecSetEx == InitSetEx /\ [][NextSetEx]_vars


---------------------------------------------------------------------------
(* Properties of SetEx                                                     *)

\* The elements of the collection, and those of them with the key k.
Elements(this) == {this.items[i] : i \in 1..Len(this.items)}

WithKey(this, k) == {x \in Elements(this) : KeyOf(this.key, x) = k}

\* The key of the value v given to the call, under the key property of the
\* collection.
KeyGiven(v) == KeyOf(call.pre.key, v)

\* The invocations of the callback cb among ev, in order.
InvocationsOf(ev, cb) == SelectSeq(ev, LAMBDA e : e.cb = cb)

\* C16: add(v) when an element e with the key of v is present: with
\* replaceIfExits1 false e stays and v is not added; with replaceIfExits1
\* true e is removed and v takes its place; either way the collection then
\* holds exactly one element with that key, and onExist1(e, v) was invoked
\* once.  (On a collection that clear() or the setter of key has not left
\* with a map of other elements.)
C16_AddOnExistingKey ==
  (call.plain /\ call.op = "add" /\ WithKey(call.pre, KeyGiven(call.values[1])) # {}) =>
    \E v \in {call.values[1]} :
      /\ ~call.pre.replaceIfExits1 =>
           /\ WithKey(call.pre, KeyGiven(v)) \subseteq Elements(setex)
           /\ v \notin Elements(call.pre) => v \notin Elements(setex)
      /\ call.pre.replaceIfExits1 =>
           /\ \A e \in WithKey(call.pre, KeyGiven(v)) : e # v => e \notin Elements(setex)
           /\ v \in Elements(setex)
      /\ Cardinality(WithKey(setex, KeyGiven(v))) = 1
      /\ call.pre.onExist1 =>
           \E e \in WithKey(call.pre, KeyGiven(v)) :
             InvocationsOf(call.ev, "onExist1") = <<Invoked("onExist1", e, v)>>

\* C17: add2(v) returns the element the collection holds for the key of v
\* after the call: v when the key was absent or replaceIfExits2 is true, the
\* element there before otherwise; and with replaceIfExits2 true that
\* earlier element is no longer an element of the collection.  (On a
\* collection that clear() or the setter of key has not left with a map of
\* other elements.)
C17_Add2ReturnsHeldElement ==
  (call.plain /\ call.op = "add2") =>
    \E v \in {call.values[1]} :
      /\ call.ret = <<setex.map[KeyGiven(v)]>>
      /\ call.ret[1] \in Elements(setex)
      /\ (WithKey(call.pre, KeyGiven(v)) = {} \/ call.pre.replaceIfExits2) => call.ret = <<v>>
      /\ (WithKey(call.pre, KeyGiven(v)) # {} /\ ~call.pre.replaceIfExits2) =>
           call.ret[1] \in WithKey(call.pre, KeyGiven(v))
      /\ call.pre.replaceIfExits2 =>
           \A e \in WithKey(call.pre, KeyGiven(v)) : e # v => e \notin Elements(setex)

\* C18: add and add2 invoke onNotExist1 (onNotExist2) for the value if and
\* only if no element with the key of the value was in the collection before
\* the call; when there was one, only onExist1 (onExist2) is invoked.  (With
\* both callbacks of the method given, on a collection that clear() or the
\* setter of key has not left with a map of other elements.)
C18_OnNotExistOnlyWhenAbsent ==
  (/\ call.plain
   /\ \/ call.op = "add" /\ call.pre.onExist1 /\ call.pre.onNotExist1
      \/ call.op = "add2" /\ call.pre.onExist2 /\ call.pre.onNotExist2) =>
    \E v \in {call.values[1]} :
    \E n \in {IF call.op = "add" THEN "1" ELSE "2"} :
      /\ WithKey(call.pre, KeyGiven(v)) = {} <=>
           \E i \in 1..Len(call.ev) : call.ev[i] = Invoked("onNotExist" \o n, 0, v)
      /\ WithKey(call.pre, KeyGiven(v)) # {} =>
           \A i \in 1..Len(call.ev) : call.ev[i].cb = "onExist" \o n


---------------------------------------------------------------------------
(* ValidItem and ValidForm: the validation of the data of a form           *)

\* this.valids[item.prop] = item, on the entries of this.valids in the order
\* for...in visits them: an entry already there keeps its place.
RECURSIVE putValid(_, _)
putValid(entries, item) ==
  IF entries = <<>> THEN <<item>>
  ELSE IF entries[1].prop = item.prop THEN <<item>> \o Tail(entries)
  ELSE IF KeyBefore(item.prop, entries[1].prop) THEN <<item>> \o entries
  ELSE <<entries[1]>> \o putValid(Tail(entries), item)

\* new ValidItem(vv, data), for rules that give required alone (mkType and
\* mkTrim are those of defProps: 'string' and true).  required is TRUE for
\* {required: true} and FALSE for {}, rules without the key required.  The
\* constructor leaves value unassigned.
ValidItemObject(prop, required, data) ==
  [prop |-> prop, required |-> required, data |-> data, value |-> Undefined]

\* The length of an array of the heap: one more than its greatest index, 0
\* without an index (the arrays of the model are made by literals and by
\* writes, and none has had its length set).
ArrayLength(props) ==
  IF \E j \in 1..Len(props) : IsIntegerKey(props[j].k)
  THEN 1 + DecValue(props[CHOOSE j \in 1..Len(props) :
                            /\ IsIntegerKey(props[j].k)
                            /\ \A i \in 1..Len(props) :
                                 IsIntegerKey(props[i].k) =>
                                   DecValue(props[i].k) <= DecValue(props[j].k)].k)
  ELSE 0

\* The elements 0..length-1 of an array of the heap, undefined at a hole.
ElementsOf(props) ==
  [i \in 1..ArrayLength(props) |->
     IF FindKey(props, NumToStr(i - 1)) = 0 THEN Undefined
     ELSE props[FindKey(props, NumToStr(i - 1))].v]

\* vl instanceof Array && vl.length === 0
IsEmptyArray(h, vl) ==
  \/ vl.t = "arraylit" /\ vl.e = <<>>
  \/ IsRef(vl) /\ h[vl.n].kind = "array" /\ ArrayLength(h[vl.n].props) = 0

\* isEmptyValue
isEmptyValue(h, vl) == vl = Str(<<>>) \/ IsNullish(vl) \/ IsEmptyArray(h, vl)

\* `${value}`: the string of a primitive, '[object Object]' for an object,
\* the strings of the elements 0..length-1 joined by commas for an array (an
\* element that is null or undefined, or a hole, gives the empty string; a
\* property of the array that is no index is no element).  The text of a
\* function is not modelled: the data of the model hold no function, and no
\* array with itself inside or with an accessor for an element.
ObjectObject ==
  <<"[", "o", "b", "j", "e", "c", "t", " ", "O", "b", "j", "e", "c", "t", "]">>

RECURSIVE ToStringOf(_, _)
RECURSIVE JoinValues(_, _, _)
JoinValues(h, values, i) ==
  IF i > Len(values) THEN <<>>
  ELSE (IF i > 1 THEN <<",">> ELSE <<>>)
         \o (IF IsNullish(values[i]) THEN <<>> ELSE ToStringOf(h, values[i]))
         \o JoinValues(h, values, i + 1)

ToStringOf(h, value) ==
  IF value.t = "string" THEN value.s
  ELSE IF value.t = "number" THEN NumberToString(value.n, value.d)
  ELSE IF value.t = "boolean" THEN (IF value = Bool(TRUE) THEN TrueChars ELSE FalseChars)
  ELSE IF value.t = "undefined" THEN UndefinedChars
  ELSE IF value.t = "null" THEN NullChars
  ELSE IF value.t = "arraylit" THEN JoinValues(h, value.e, 1)
  ELSE IF IsRef(value) /\ h[value.n].kind = "array"
    THEN JoinValues(h, ElementsOf(h[value.n].props), 1)
  ELSE ObjectObject

\* valueConvert, case 'string' with mkTrim: `${value}`.trim()
valueConvert(h, value) ==
  IF isEmptyValue(h, value) THEN Str(<<>>) ELSE Str(Trim(ToStringOf(h, value)))

\* get valueMe: the path is props.prop.
valueMe(h, item) == valueConvert(h, LGet(h, item.data, item.prop, Undefined).ret)

\* required(), on this.value: TRUE when its promise is resolved, FALSE when
\* it is rejected.
required(h, item) == ~(item.required /\ isEmptyValue(h, item.value))

\* The constructor of ValidForm: the forEach over the entries of valid.items
\* (registerItems) inside the loop over the valids (registerValids).
RECURSIVE registerItems(_, _, _, _)
registerItems(entries, items, data, i) ==
  IF i > Len(items) THEN entries
  ELSE registerItems(putValid(entries,
                              ValidItemObject(items[i].prop, items[i].required, data)),
                     items, data, i + 1)

RECURSIVE registerValids(_, _, _)
registerValids(this, valids, i) ==
  IF i > Len(valids) THEN this
  ELSE registerValids(
         [this EXCEPT !.valids = registerItems(@, valids[i].items, this.data, 1),
                      !.mkCustoms = IF valids[i].mkCustom # <<>>
                                    THEN Append(@, valids[i].mkCustom) ELSE @],
         valids, i + 1)

ValidFormObject(data, valids) ==
  registerValids([data |-> data, valids |-> <<>>, mkCustoms |-> <<>>], valids, 1)

\* A form-level mkCustom of the model is named by a property of the data and
\* rejects unless that property is true:
\*   async (data) => { if (data[name] !== true) throw new Error() }
customAccepts(h, name, data) == GetMember(h, data, name) = [ok |-> TRUE, v |-> Bool(TRUE)]

\* The record of a call on the form: the method, the prop and the data it
\* was given, the validators it has run so far in order, the state of the
\* promise it returned ("returned" for element and wot, which return the
\* rules of the props in ret), the error of a rejection, and whether no
\* other call was made while it was pending.
FormCall(op, prop, data) ==
  [op |-> op, prop |-> prop, data |-> data, log |-> <<>>, status |-> "pending",
   error |-> "", ret |-> <<>>, alone |-> TRUE]

\* One validator run: an item (kind "item", named by its prop) or a
\* form-level mkCustom (kind "custom"), the data it was run against, and
\* whether it passed.
Ran(kind, name, data, ok) == [kind |-> kind, name |-> name, data |-> data, ok |-> ok]

\* The async functions are run as the engine runs them.  A call of one runs
\* its body up to its first await and returns a pending promise; every await
\* gives up the thread, and the function is resumed by a job of the
\* microtask queue, enqueued when the awaited promise is settled (at once
\* when it is settled already); the jobs run first in, first out.  An
\* activation is one call of an async function under way: the function, the
\* public call it serves, the activation awaiting it (0 for the public call
\* itself), its data parameter, the position of its loop and the state of
\* its promise.  A job resumes an activation with the outcome of the promise
\* it awaited.
Activation(fn, c, parent, data) ==
  [fn |-> fn, call |-> c, parent |-> parent, data |-> data, i |-> 1,
   status |-> "pending"]

Job(k, ok) == [act |-> k, ok |-> ok]

\* The form, the calls, the activations and the queue, handed from one
\* statement to the next.
World(f, c, a, q) == [form |-> f, call |-> c, acts |-> a, queue |-> q]

spawn(w, activation) == [w EXCEPT !.acts = Append(@, activation)]

enqueue(w, k, ok) == [w EXCEPT !.queue = Append(@, Job(k, ok))]

logged(w, c, entry) == [w EXCEPT !.call[c].log = Append(@, entry)]

\* The promise of activation k is settled: the activation awaiting it gets
\* its job, or the promise of the public call is settled.
settle(w, k, ok) ==
  IF w.acts[k].parent = 0
  THEN [w EXCEPT !.acts[k].status = IF ok THEN "resolved" ELSE "rejected",
                 !.call[w.acts[k].call].status = IF ok THEN "resolved" ELSE "rejected",
                 !.call[w.acts[k].call].error = IF ok THEN "" ELSE "rule"]
  ELSE enqueue([w EXCEPT !.acts[k].status = IF ok THEN "resolved" ELSE "rejected"],
               w.acts[k].parent, ok)

\* ValidItem.service(data) of item j, awaited by activation parent, from
\* this.value = this.valueMe on: a rule with required calls required() and
\* awaits its promise; without one the loop over props awaits nothing and
\* the promise of service is resolved when it returns.
serviceRules(h, w, parent, j) ==
  IF w.form.valids[j].required
  THEN enqueue(spawn(logged(w, w.acts[parent].call,
                            Ran("item", w.form.valids[j].prop, w.form.valids[j].data,
                                required(h, w.form.valids[j]))),
                     Activation("ValidItem.service", w.acts[parent].call, parent,
                                w.form.valids[j].data)),
               Len(w.acts) + 1, required(h, w.form.valids[j]))
  ELSE enqueue(logged(w, w.acts[parent].call,
                      Ran("item", w.form.valids[j].prop, w.form.valids[j].data, TRUE)),
               parent, TRUE)

serviceValue(h, w, parent, j) ==
  serviceRules(h, [w EXCEPT !.form.valids[j].value = valueMe(h, w.form.valids[j])],
               parent, j)

serviceItem(h, w, parent, j, data) ==
  serviceValue(h, IF IsFalsy(data) THEN w ELSE [w EXCEPT !.form.valids[j].data = data],
               parent, j)

\* One turn of the loop of ValidForm.mkCustom, activation k: mkCustom(this.data)
\* is called, this.data being read at that turn, and its promise awaited;
\* after the last turn the promise of mkCustom is resolved.
mkCustomTurn(h, w, k) ==
  IF w.acts[k].i <= Len(w.form.mkCustoms)
  THEN enqueue(logged(w, w.acts[k].call,
                      Ran("custom", w.form.mkCustoms[w.acts[k].i], w.form.data,
                          customAccepts(h, w.form.mkCustoms[w.acts[k].i], w.form.data))),
               k, customAccepts(h, w.form.mkCustoms[w.acts[k].i], w.form.data))
  ELSE settle(w, k, TRUE)

mkCustom(h, w, c, parent) ==
  mkCustomTurn(h, spawn(w, Activation("mkCustom", c, parent, Undefined)), Len(w.acts) + 1)

\* ValidForm.validCustom(data), awaited by activation parent (0 when the
\* call is the public one).
validCustom(h, w, c, parent, data) ==
  mkCustom(h, spawn(IF IsFalsy(data) THEN w ELSE [w EXCEPT !.form.data = data],
                    Activation("validCustom", c, parent, data)),
           c, Len(w.acts) + 1)

\* One turn of the loop of ValidForm.service, activation k: the service of
\* the next item is called with the data of the call and awaited; after the
\* last item this.validCustom() is, without data.
serviceTurn(h, w, k) ==
  IF w.acts[k].i <= Len(w.form.valids)
  THEN serviceItem(h, w, k, w.acts[k].i, w.acts[k].data)
  ELSE validCustom(h, w, w.acts[k].call, k, Undefined)

\* ValidForm.service(data), public call c.
service(h, w, c, data) ==
  serviceTurn(h, spawn(w, Activation("service", c, 0, data)), Len(w.acts) + 1)

\* The place of the item of that prop in this.valids, 0 when there is none.
RECURSIVE FindValid(_, _, _)
FindValid(entries, prop, j) ==
  IF j > Len(entries) THEN 0
  ELSE IF entries[j].prop = prop THEN j
  ELSE FindValid(entries, prop, j + 1)

\* ValidForm.validItem(prop, data), public call c, after if (data)
\* this.data = data: the service of the item is called with this.data and
\* awaited; without such an item the function throws, and its promise is
\* rejected when it returns.
validItemService(h, w, c, prop) ==
  IF FindValid(w.form.valids, prop, 1) # 0
  THEN serviceItem(h, spawn(w, Activation("validItem", c, 0, w.form.data)),
                   Len(w.acts) + 1, FindValid(w.form.valids, prop, 1), w.form.data)
  ELSE [w EXCEPT !.call[c].status = "rejected", !.call[c].error = "not found"]

validItem(h, w, c, prop, data) ==
  validItemService(h, IF IsFalsy(data) THEN w ELSE [w EXCEPT !.form.data = data], c, prop)

\* ValidForm.element(data) and ValidForm.wot(data), public call c: the
\* element (the wot) of every item is called with data, which sets the data
\* of the item when data is given, and the rules are returned under the
\* props in the order of Object.entries.  The validator among the rules of
\* an item is the one of runSequentially below.
rulesOf(w, c, data) ==
  [w EXCEPT !.form.valids = [j \in 1..Len(@) |->
                               IF IsFalsy(data) THEN @[j] ELSE [@[j] EXCEPT !.data = data]],
            !.call[c].status = "returned",
            !.call[c].ret = [j \in 1..Len(w.form.valids) |-> w.form.valids[j].prop]]

element(w, c, data) == rulesOf(w, c, data)

wot(w, c, data) == rulesOf(w, c, data)

\* An activation of service is resumed: a rejection of the awaited promise
\* is thrown and rejects the promise of service; after validCustom the
\* function returns; after an item the loop goes on.
resumeService(h, w, k, ok) ==
  IF ~ok THEN settle(w, k, FALSE)
  ELSE IF w.acts[k].i > Len(w.form.valids) THEN settle(w, k, TRUE)
  ELSE serviceTurn(h, [w EXCEPT !.acts[k].i = @ + 1], k)

\* An activation of mkCustom is resumed.
resumeMkCustom(h, w, k, ok) ==
  IF ~ok THEN settle(w, k, FALSE)
  ELSE mkCustomTurn(h, [w EXCEPT !.acts[k].i = @ + 1], k)

\* An activation of ValidItem.service, validCustom or validItem is resumed:
\* nothing is left of its body but to return, or to throw the rejection.
resumeLast(w, k, ok) == settle(w, k, ok)

\* The data objects: {a, b, 1: 'z', m, n}, b left out when undefined.
Km == <<"m">>

Kn == <<"n">>

Kone == <<"1">>

Kzz == <<"z", "z">>

DataObject(a, b, m, n) ==
  Obj(<<P(Kone, Str(<<"z">>)), P(Ka, a), P(Kb, b), P(Km, Bool(m)), P(Kn, Bool(n))>>)

DataObjects ==
  {DataObject(a, b, m, n) : a \in {Str(<<"x">>), Str(<<" ">>)},
                            b \in {Str(<<"y">>), Undefined},
                            m \in BOOLEAN, n \in BOOLEAN}

\* The object every validator accepts, and the objects one validator
\* rejects.
Accepted == DataObject(Str(<<"x">>), Str(<<"y">>), TRUE, TRUE)

RejectedByOne ==
  {d \in DataObjects :
     Cardinality({j \in 1..Len(d.props) : d.props[j] # Accepted.props[j]}) = 1}

\* The rules the forms are built from: the valids given to the constructor,
\* each with its items in the order of Object.entries and its mkCustom
\* (<<>> when it has none).
Rule(prop, req) == [prop |-> prop, required |-> req]

ValidType(items, custom) == [items |-> items, mkCustom |-> custom]

\* {items: {a: {required: true}, b: {required: true}}, mkCustom: m},
\* {items: {}, mkCustom: n}
FormPlain ==
  << ValidType(<<Rule(Ka, TRUE), Rule(Kb, TRUE)>>, Km), ValidType(<<>>, Kn) >>

\* {items: {b: {required: true}}, mkCustom: m},
\* {items: {1: {required: true}, m: {}}}
FormMixed ==
  << ValidType(<<Rule(Kb, TRUE)>>, Km),
     ValidType(<<Rule(Kone, TRUE), Rule(Km, FALSE)>>, <<>>) >>

Forms == {FormPlain, FormMixed}

\* The data and the props the calls are made with.
DataArguments == {Undefined, Ref(1), Ref(2)}

PropArguments == {Ka, Kb, Kzz}

\* The calls made on one form.
MaxFormCalls == 2

\* new ValidForm(data, ...valids) on the first of two data objects.
InitForm ==
  /\ \E d0 \in {Accepted} \cup RejectedByOne, d1 \in {Accepted} \cup RejectedByOne :
       /\ Accepted \in {d0, d1}
       /\ heap = <<d0, d1>>
  /\ root = Undefined
  /\ setex = <<>>
  /\ \E valids \in Forms : form = ValidFormObject(Ref(1), valids)
  /\ pc = "ready"
  /\ call = <<>>
  /\ scan = <<>>
  /\ run = <<>>
  /\ meta = <<>>
  /\ acts = <<>>
  /\ queue = <<>>

\* The state as a call finds it, the record of the call added: a call made
\* while another is pending overlaps it.
Calling(c) ==
  World(form,
        Append([j \in 1..Len(call) |->
                  IF call[j].status = "pending" THEN [call[j] EXCEPT !.alone = FALSE]
                  ELSE call[j]],
               [c EXCEPT !.alone = \A j \in 1..Len(call) : call[j].status # "pending"]),
        acts, queue)

\* The state as a job finds it, taken off the queue.
Running == World(form, call, acts, Tail(queue))

Leaves(world) ==
  /\ \E w \in {world} :
       /\ form' = w.form
       /\ call' = w.call
       /\ acts' = w.acts
       /\ queue' = w.queue
  /\ UNCHANGED <<heap, root, pc, setex, scan, run, meta>>

\* A public method of the form is called: by the code that holds the form,
\* between two jobs or before the first, whether or not an earlier call is
\* still pending.
CallService ==
  /\ Len(call) < MaxFormCalls
  /\ \E data \in DataArguments :
       Leaves(service(heap, Calling(FormCall("service", <<>>, data)), Len(call) + 1, data))

CallValidCustom ==
  /\ Len(call) < MaxFormCalls
  /\ \E data \in DataArguments :
       Leaves(validCustom(heap, Calling(FormCall("validCustom", <<>>, data)),
                          Len(call) + 1, 0, data))

CallValidItem ==
  /\ Len(call) < MaxFormCalls
  /\ \E prop \in PropArguments, data \in DataArguments :
       Leaves(validItem(heap, Calling(FormCall("validItem", prop, data)),
                        Len(call) + 1, prop, data))

CallElement ==
  /\ Len(call) < MaxFormCalls
  /\ \E data \in DataArguments :
       Leaves(element(Calling(FormCall("element", <<>>, data)), Len(call) + 1, data))

CallWot ==
  /\ Len(call) < MaxFormCalls
  /\ \E data \in DataArguments :
       Leaves(wot(Calling(FormCall("wot", <<>>, data)), Len(call) + 1, data))

\* The first job of the queue runs: it resumes its activation after the
\* await it stopped at.
Resumes(fn) == queue # <<>> /\ acts[Head(queue).act].fn = fn

AwaitItem ==
  /\ Resumes("service")
  /\ acts[Head(queue).act].i <= Len(form.valids)
  /\ Leaves(resumeService(heap, Running, Head(queue).act, Head(queue).ok))

AwaitValidCustom ==
  /\ Resumes("service")
  /\ acts[Head(queue).act].i > Len(form.valids)
  /\ Leaves(resumeService(heap, Running, Head(queue).act, Head(queue).ok))

AwaitCustom ==
  /\ Resumes("mkCustom")
  /\ Leaves(resumeMkCustom(heap, Running, Head(queue).act, Head(queue).ok))

AwaitRule ==
  /\ Resumes("ValidItem.service")
  /\ Leaves(resumeLast(Running, Head(queue).act, Head(queue).ok))

AwaitMkCustom ==
  /\ Resumes("validCustom")
  /\ Leaves(resumeLast(Running, Head(queue).act, Head(queue).ok))

AwaitService ==
  /\ Resumes("validItem")
  /\ Leaves(resumeLast(Running, Head(queue).act, Head(queue).ok))

NextForm ==
  \/ CallService \/ CallValidCustom \/ CallValidItem \/ CallElement \/ CallWot
  \/ AwaitItem \/ AwaitValidCustom \/ AwaitCustom \/ AwaitRule \/ AwaitMkCustom
  \/ AwaitService

SpecForm == InitForm /\ [][NextForm]_vars


---------------------------------------------------------------------------
(* Properties of ValidForm                                                 *)

\* The props of the items and the mkCustoms of the valids i.., in the order
\* the constructor is given them.
RECURSIVE RegisteredItems(_, _)
RegisteredItems(valids, i) ==
  IF i > Len(valids) THEN <<>>
  ELSE [j \in 1..Len(valids[i].items) |-> valids[i].items[j].prop]
         \o RegisteredItems(valids, i + 1)

RECURSIVE RegisteredCustoms(_, _)
RegisteredCustoms(valids, i) ==
  IF i > Len(valids) THEN <<>>
  ELSE (IF valids[i].mkCustom # <<>> THEN <<valids[i].mkCustom>> ELSE <<>>)
         \o RegisteredCustoms(valids, i + 1)

\* The valids the form was built from.
BuiltFrom(valids) ==
  [j \in 1..Len(form.valids) |-> form.valids[j].prop]
    = [j \in 1..Len(ValidFormObject(Ref(1), valids).valids) |->
         ValidFormObject(Ref(1), valids).valids[j].prop]

\* The names of the validators of that kind in the log, in the order run.
NamesRun(log, kind) ==
  [j \in 1..Len(SelectSeq(log, LAMBDA e : e.kind = kind)) |->
     SelectSeq(log, LAMBDA e : e.kind = kind)[j].name]

IsPrefix(p, q) == Len(p) <= Len(q) /\ p = SubSeq(q, 1, Len(p))

\* The log is that of a run of the items, then the customs, in the orders
\* given, all against data, stopped by the first rejection.
RunInOrder(log, items, customs, data, rejected) ==
  /\ \A j \in 1..Len(log) : log[j].data = data
  /\ \A j \in 1..(Len(log) - 1) : log[j].ok
  /\ rejected <=> (log # <<>> /\ ~log[Len(log)].ok)
  /\ IsPrefix(NamesRun(log, "item"), items)
  /\ IsPrefix(NamesRun(log, "custom"), customs)
  /\ \A j \in 1..Len(log) : \A k \in 1..Len(log) :
       (log[j].kind = "custom" /\ log[k].kind = "item") => k < j
  /\ NamesRun(log, "custom") # <<>> => NamesRun(log, "item") = items
  /\ ~rejected => (NamesRun(log, "item") = items /\ NamesRun(log, "custom") = customs)

\* C19: service(data) validates every registered item in registration order
\* against data and, once all pass, runs every form-level mkCustom in
\* registration order against that same data; the first rejection stops
\* everything after it.  (Of a call of service that no other call overlaps,
\* once its promise is settled.)
C19_ServiceRunsAllInOrder ==
  \A c \in 1..Len(call) :
    (/\ call[c].op = "service"
     /\ call[c].alone
     /\ ~IsFalsy(call[c].data)
     /\ call[c].status \in {"resolved", "rejected"}) =>
      \A valids \in Forms :
        BuiltFrom(valids) =>
          RunInOrder(call[c].log, RegisteredItems(valids, 1), RegisteredCustoms(valids, 1),
                     call[c].data, call[c].status = "rejected")


---------------------------------------------------------------------------
(* The value returned after the last token                                 *)

\* C21: when LGet consumes every token (the loop of evaluatePath runs to its
\* end), it returns the default in place of the final value exactly when the
\* final value is undefined; a final value of null comes back as null.
C21_DefaultOnlyForUndefined ==
  (call.op = "LGet" /\ call.st = "value")
    => \A r \in {ValueAfter(call.pre, root, call.tokens, 1, Len(call.tokens))} :
         /\ r.ok
         /\ r.v = Undefined => call.ret = call.arg
         /\ r.v # Undefined => call.ret = r.v
         /\ r.v = Null => call.ret = Null /\ call.ret # call.arg

C21_Witness ==
  /\ call.op = "LGet"
  /\ call.st = "value"
  /\ Len(call.tokens) = 2
  /\ ValueAfter(call.pre, root, call.tokens, 1, 2).v = Null
  /\ call.arg = Str(<<"d">>)
  /\ call.ret = Null

---------------------------------------------------------------------------
(* A function call before the last token of a write                        *)

\* Token j of the call is a FunctionCall token before the last token.
CallBeforeLast(c, j) == j < Len(c.tokens) /\ c.tokens[j].type = "function"

\* The invocations the call made for token j.
InvokedAt(c, j) == SelectSeq(c.log, LAMBDA e : e.tok = j)

\* The write goes on from what the call of token j returned: the heap is what
\* setting the value by the tokens after j, from the value r.v, leaves of the
\* heap r.h; and when the token after j is the last one and a property of an
\* object or array returned, that property holds the value.
GoesOnWith(c, j, r) ==
  /\ heap = setTokens(r.h, r.v, SubSeq(c.tokens, j + 1, Len(c.tokens)), c.arg).h
  /\ (/\ j + 1 = Len(c.tokens)
      /\ c.tokens[j + 1].type = "property"
      /\ IsRef(r.v)
      /\ OwnEntry(r.h, r.v, ToKey(c.tokens[j + 1].value)) # <<ThrowingGetter>>)
       => OwnEntry(heap, r.v, ToKey(c.tokens[j + 1].value)) = <<c.arg>>
  /\ ~IsRef(r.v) => heap = r.h

\* The walk reached token j with the receiver s.cur, whose member m is a
\* function: it is invoked once, on s.cur, with the arguments of the token;
\* the member is still the function afterwards and the call adds no object to
\* the heap; the write goes on from the value returned.
InvokedOnce(c, j, s, m) ==
  /\ Len(InvokedAt(c, j)) = 1
  /\ c.log[Len(s.log) + 1] = Invocation(j, s.h[m[1].n].fn, s.cur, c.tokens[j].args)
  /\ \A r \in {Apply(s.h, s.h[m[1].n].fn, s.cur, c.tokens[j].args)} :
       /\ Len(r.h) = Len(s.h)
       /\ OwnEntry(r.h, s.cur, c.tokens[j].name) = m
       /\ r.ok => GoesOnWith(c, j, r)

\* The walk reached token j, whose member is no function: nothing more is
\* invoked, every member on the path before j is present in the graph of root, the
\* entries added during the call hold containers created for the tokens
\* before j, and no other entry has changed but the counter of a function
\* invoked earlier on the path.
Abandoned(c, j, s) ==
  /\ c.log = s.log
  /\ heap = s.h
  /\ \A k \in 1..(j - 1) :
       (\A i \in 1..k : c.tokens[i].type # "function") =>
         \E e \in {Addressed(heap, root, SubSeq(c.tokens, 1, k), 1)} :
           e # <<>> /\ ~IsNullish(e[1])
  /\ \A pl \in NewPlaces(c.pre, heap) :
       \/ FreshRef(c.pre, heap, EntryAt(heap, pl).v)
       \/ IsBumpEntry(c, pl[1], EntryAt(heap, pl))
  /\ \A pl \in Places(c.pre) :
       \/ EntryAt(heap, pl) = EntryAt(c.pre, pl)
       \/ /\ IsNullish(EntryAt(c.pre, pl).v)
          /\ FreshRef(c.pre, heap, EntryAt(heap, pl).v)
       \/ IsBumpEntry(c, pl[1], EntryAt(heap, pl))

\* The state in which the first loop of setValueAtPath reaches token j.
ReachedAt(c, j) == walkPrefix(SubSeq(c.tokens, 1, j), 1, root, c.pre, <<>>)

\* C22: in LSet a FunctionCall token before the last token is invoked once on
\* the current value with the parsed arguments, no container is created for
\* it, and the write goes on from the value it returned; when the member it
\* names is no function the write is abandoned: the value is assigned
\* nowhere, and the containers created for earlier tokens stay in root.
C22_CallInPrefixOfWrite ==
  (call.op = "LSet" /\ call.st # "guard") =>
    \A j \in 1..Len(call.tokens) :
      CallBeforeLast(call, j) =>
        \A s \in {ReachedAt(call, j)} :
          (s.st = "ok" /\ ~IsNullish(s.cur)) =>
            \A m \in {OwnEntry(s.h, s.cur, call.tokens[j].name)} :
              /\ IsFunctionEntry(s.h, m) => InvokedOnce(call, j, s, m)
              /\ ~IsFunctionEntry(s.h, m) => Abandoned(call, j, s)

C22_Witness ==
  /\ call.op = "LSet"
  /\ call.pre = RootFunctions.heap
  /\ call.path = <<".", "h", "(", ")", ".", "a", ".", "b">>
  /\ call.arg = Num(5)
  /\ call.log = <<Invocation(1, "self", root, <<>>)>>
  /\ OwnEntry(heap, Ref(2), Kb) = <<Num(5)>>
  /\ Len(heap) = Len(call.pre)

---------------------------------------------------------------------------
(* tokenizePath step by step: one action per iteration of its loops        *)

\* The frame of a running tokenizePath: its parameter path, its locals i,
\* current and tokens, and the locals of the delimiter scan under way: j, the
\* bracket or paren count, the content collected, the function name.  at is
\* the position in the code: "outer" (the test of the outer while), "bracket"
\* or "paren" (the test of an inner while), "done" (returned, tokens being
\* the result).  Positions count from 1: i here is i + 1 of the code.
Frame(path) ==
  [path |-> path, i |-> 1, current |-> <<>>, tokens |-> <<>>, at |-> "outer",
   j |-> 0, count |-> 0, content |-> <<>>, name |-> <<>>]

\* No call of tokenizePath has been made yet.
NoFrame == [Frame(<<>>) EXCEPT !.at = "idle"]

\* if (char === '.') { flush current }; i++
scanDot(s) ==
  [s EXCEPT !.tokens = flushProperty(s.tokens, s.current), !.current = <<>>, !.i = s.i + 1]

\* else { current += char }; i++
scanOther(s) == [s EXCEPT !.current = Append(s.current, s.path[s.i]), !.i = s.i + 1]

\* '[': flush current; let j = i + 1; let bracketCount = 1; let indexContent = ''
openBracket(s) ==
  [s EXCEPT !.tokens = flushProperty(s.tokens, s.current), !.current = <<>>,
            !.at = "bracket", !.j = s.i + 1, !.count = 1, !.content = <<>>]

\* openParen pushing the accumulator as a Property token before the call.
openParenFlushing(s) ==
  [s EXCEPT !.tokens = flushProperty(s.tokens, s.current),
            !.name = <<>>, !.current = <<>>,
            !.at = "paren", !.j = s.i + 1, !.count = 1, !.content = <<>>]

\* '(': const functionName = current; current = ''; let j = i + 1;
\* let parenCount = 1; let argsContent = ''
openParen(s) ==
  [s EXCEPT !.name = s.current, !.current = <<>>,
            !.at = "paren", !.j = s.i + 1, !.count = 1, !.content = <<>>]

\* The frame after one iteration of the inner while loop gave r.
stepped(s, r) == [s EXCEPT !.j = r.j, !.count = r.count, !.content = r.content]

\* closeScan pushing nothing when the delimiter was never closed.
closeScanDropsUnclosed(s, token) ==
  [s EXCEPT !.tokens = IF s.count > 0 THEN s.tokens ELSE Append(s.tokens, token),
            !.i = s.j, !.at = "outer"]

\* closeScan without the i++ that ends the iteration of the outer loop.
closeScanNoAdvance(s, token) ==
  [s EXCEPT !.tokens = Append(s.tokens, token), !.i = s.j - 1, !.at = "outer"]

\* After an inner loop: tokens.push(token); i = j - 1; and the i++ that ends
\* the iteration of the outer loop.
closeScan(s, token) ==
  [s EXCEPT !.tokens = Append(s.tokens, token), !.i = s.j, !.at = "outer"]

\* After the outer loop: if (current) push it; return tokens.
scanReturn(s) ==
  [s EXCEPT !.tokens = flushProperty(s.tokens, s.current), !.at = "done"]

\* The characters of the paths tokenized, and their greatest length.
PathChars == {"a", "1", ".", "[", "]", "(", ")", "'"}

MaxPathLen == 4

\* Longer paths: "f(')').b", "x[']'].y", "f(g(1),1).a", "a[b[1]].c",
\* "a.f((1)", "a[[1]", "a[1](1).b()", "f(\"(\").a)".
ExtraPaths ==
  { <<"f", "(", "'", ")", "'", ")", ".", "b">>,
    <<"x", "[", "'", "]", "'", "]", ".", "y">>,
    <<"f", "(", "g", "(", "1", ")", ",", "1", ")", ".", "a">>,
    <<"a", "[", "b", "[", "1", "]", "]", ".", "c">>,
    <<"a", ".", "f", "(", "(", "1", ")">>,
    <<"a", "[", "[", "1", "]">>,
    <<"a", "[", "1", "]", "(", "1", ")", ".", "b", "(", ")">>,
    <<"f", "(", "\"", "(", "\"", ")", ".", "a", ")">> }

ScanPaths == StringsUpTo(PathChars, MaxPathLen) \cup ExtraPaths

InitScan ==
  /\ heap = <<>>
  /\ root = Undefined
  /\ pc = "ready"
  /\ call = NoCall
  /\ setex = <<>>
  /\ form = <<>>
  /\ scan = NoFrame
  /\ run = <<>>
  /\ meta = <<>>
  /\ acts = <<>>
  /\ queue = <<>>

\* tokenizePath(path) is called.
ScanCall ==
  /\ scan.at = "idle"
  /\ \E path \in ScanPaths : scan' = Frame(path)
  /\ UNCHANGED <<heap, root, pc, call, setex, form, run, meta, acts, queue>>

\* The test of the outer while holds: the frame is at a character to look at.
AtChar(s) == s.at = "outer" /\ s.i <= Len(s.path)

\* The test of the inner while holds.
InnerGoesOn(s) == s.j <= Len(s.path) /\ s.count > 0

ScanDot ==
  /\ AtChar(scan) /\ scan.path[scan.i] = "."
  /\ scan' = scanDot(scan)
  /\ UNCHANGED <<heap, root, pc, call, setex, form, run, meta, acts, queue>>

OpenBracket ==
  /\ AtChar(scan) /\ scan.path[scan.i] = "["
  /\ scan' = openBracket(scan)
  /\ UNCHANGED <<heap, root, pc, call, setex, form, run, meta, acts, queue>>

BracketStep ==
  /\ scan.at = "bracket" /\ InnerGoesOn(scan)
  /\ scan' = stepped(scan, scanStep(scan.path, scan.j, scan.count, scan.content, "[", "]"))
  /\ UNCHANGED <<heap, root, pc, call, setex, form, run, meta, acts, queue>>

CloseBracket ==
  /\ scan.at = "bracket" /\ ~InnerGoesOn(scan)
  /\ scan' = closeScan(scan, IndexToken(indexValue(scan.content)))
  /\ UNCHANGED <<heap, root, pc, call, setex, form, run, meta, acts, queue>>

OpenParen ==
  /\ AtChar(scan) /\ scan.path[scan.i] = "("
  /\ scan' = openParen(scan)
  /\ UNCHANGED <<heap, root, pc, call, setex, form, run, meta, acts, queue>>

ParenStep ==
  /\ scan.at = "paren" /\ InnerGoesOn(scan)
  /\ scan' = stepped(scan, scanStep(scan.path, scan.j, scan.count, scan.content, "(", ")"))
  /\ UNCHANGED <<heap, root, pc, call, setex, form, run, meta, acts, queue>>

CloseParen ==
  /\ scan.at = "paren" /\ ~InnerGoesOn(scan)
  /\ scan' = closeScan(scan, FunctionToken(scan.name, parseArguments(scan.content)))
  /\ UNCHANGED <<heap, root, pc, call, setex, form, run, meta, acts, queue>>

ScanOther ==
  /\ AtChar(scan) /\ scan.path[scan.i] \notin {".", "[", "("}
  /\ scan' = scanOther(scan)
  /\ UNCHANGED <<heap, root, pc, call, setex, form, run, meta, acts, queue>>

ScanReturn ==
  /\ scan.at = "outer" /\ scan.i > Len(scan.path)
  /\ scan' = scanReturn(scan)
  /\ UNCHANGED <<heap, root, pc, call, setex, form, run, meta, acts, queue>>

\* The steps of a call under way.
ScanSteps ==
  \/ ScanDot \/ OpenBracket \/ BracketStep \/ CloseBracket
  \/ OpenParen \/ ParenStep \/ CloseParen \/ ScanOther \/ ScanReturn

NextScan == ScanCall \/ ScanSteps

SpecScan == InitScan /\ [][NextScan]_vars

\* The paths of the calls whose every behaviour is followed to its end.
MaxFairLen == 2

FairPaths == StringsUpTo(PathChars, MaxFairLen) \cup ExtraPaths

ScanCallFair ==
  /\ scan.at = "idle"
  /\ \E path \in FairPaths : scan' = Frame(path)
  /\ UNCHANGED <<heap, root, pc, call, setex, form, run, meta, acts, queue>>

NextScanFair == ScanCallFair \/ ScanSteps

\* The code of a call runs on without pause: a step that can be taken is
\* taken.
SpecScanFair == InitScan /\ [][NextScanFair]_vars /\ WF_vars(ScanSteps)

---------------------------------------------------------------------------
(* Properties of the tokenizer                                             *)

Openers == {"[", "("}

CloserOf(c) == IF c = "[" THEN "]" ELSE ")"

\* The count of the delimiter scan opened at position k, after the character
\* at position m: one, plus the openers, minus the closers of the same kind
\* between the two, whatever surrounds them.
CountAfter(path, k, m) ==
  1 + Cardinality({x \in (k + 1)..m : path[x] = path[k]})
    - Cardinality({x \in (k + 1)..m : path[x] = CloserOf(path[k])})

\* The positions at which the count of the delimiter opened at k is zero.
ZeroAfter(path, k) == {m \in (k + 1)..Len(path) : CountAfter(path, k, m) = 0}

\* The delimiter opened at k is unterminated.
Unclosed(path, k) == ZeroAfter(path, k) = {}

\* The position of the delimiter that closes the one opened at k; one past
\* the end of the string when it is unterminated.
ClosePos(path, k) ==
  IF Unclosed(path, k) THEN Len(path) + 1
  ELSE CHOOSE m \in ZeroAfter(path, k) : \A x \in ZeroAfter(path, k) : m <= x

\* The positions the main scan looks at from p on: it passes over the text of
\* a delimiter scan, to the position after the closing delimiter.
RECURSIVE MetFrom(_, _)
MetFrom(path, p) ==
  IF p > Len(path) THEN {}
  ELSE {p} \cup MetFrom(path, IF path[p] \in Openers THEN ClosePos(path, p) + 1 ELSE p + 1)

\* The opening delimiters the main scan meets.
OpenersMet(path) == {k \in MetFrom(path, 1) : path[k] \in Openers}

\* The tokens end with the one token of the unterminated delimiter at k: the
\* text after k to the end of the string is its index content or argument
\* string, and before it come the tokens of the text before k (less the
\* accumulator, which a '(' takes as the function name).
EndsWithUnclosed(path, k, tokens) ==
  /\ tokens # <<>>
  /\ path[k] = "[" =>
       tokens = Append(tokenizePath(SubSeq(path, 1, k - 1)),
                       IndexToken(indexValue(SubSeq(path, k + 1, Len(path)))))
  /\ path[k] = "(" =>
       /\ tokens[Len(tokens)] =
            FunctionToken(tokens[Len(tokens)].name,
                          parseArguments(SubSeq(path, k + 1, Len(path))))
       /\ flushProperty(SubSeq(tokens, 1, Len(tokens) - 1), tokens[Len(tokens)].name)
            = tokenizePath(SubSeq(path, 1, k - 1))

\* C23: for a path in which the main scan meets a '[' or '(' that is never
\* closed, tokenizePath returns all the same: the delimiter scan collects the
\* whole rest of the string, exactly one Index or FunctionCall token is made
\* of it, and it is the last token of the result.
C23_UnclosedTakesRest ==
  /\ (scan.at \in {"bracket", "paren"} /\ ~InnerGoesOn(scan)
      /\ Unclosed(scan.path, scan.i))
       => /\ scan.content = SubSeq(scan.path, scan.i + 1, Len(scan.path))
          /\ scan.j = Len(scan.path) + 1
  /\ (scan.at = "done") =>
       /\ scan.tokens = tokenizePath(scan.path)
       /\ \A k \in OpenersMet(scan.path) :
            Unclosed(scan.path, k) => EndsWithUnclosed(scan.path, k, scan.tokens)

C23_Witness ==
  /\ scan.at = "done"
  /\ scan.path = <<"a", ".", "f", "(", "(", "1", ")">>
  /\ Unclosed(scan.path, 4)
  /\ scan.tokens = <<PropertyToken(<<"a">>),
                     FunctionToken(<<"f">>, <<Str(<<"(", "1", ")">>)>>)>>

\* Position p is that of a '.' the main scan met, or of the delimiter closing
\* one the main scan met.
AfterCloser(path, p) ==
  \/ path[p] = "." /\ p \in MetFrom(path, 1)
  \/ \E k \in OpenersMet(path) : ClosePos(path, k) = p

\* C24: every '(' met by the main scan yields exactly one FunctionCall token:
\* its name is the accumulator at that point (pushed as no Property token,
\* and empty right after a '.', or after the ']' or ')' closing a scan), its
\* arguments are parseArguments of the text up to the ')' that brings the
\* paren count back to zero, and the main scan goes on at the character right
\* after that ')'.
C24_ParenYieldsOneCall ==
  [][/\ (AtChar(scan) /\ scan.path[scan.i] = "(") =>
          /\ scan'.at = "paren"
          /\ scan'.name = scan.current
          /\ scan'.tokens = scan.tokens
          /\ scan'.i = scan.i
          /\ (scan.i > 1 /\ AfterCloser(scan.path, scan.i - 1)) => scan'.name = <<>>
     /\ (scan.at = "paren" /\ scan'.at = "paren") =>
          /\ scan'.tokens = scan.tokens
          /\ scan'.name = scan.name
          /\ scan'.i = scan.i
     /\ (scan.at = "paren" /\ scan'.at = "outer") =>
          /\ scan'.tokens =
               Append(scan.tokens,
                      FunctionToken(scan.name,
                        parseArguments(SubSeq(scan.path, scan.i + 1,
                                              ClosePos(scan.path, scan.i) - 1))))
          /\ scan'.current = <<>>
          /\ ~Unclosed(scan.path, scan.i) => scan'.i = ClosePos(scan.path, scan.i) + 1
    ]_vars

C24_Witness ==
  /\ scan.at = "done"
  /\ scan.path = <<"a", "[", "1", "]", "(", "1", ")", ".", "b", "(", ")">>
  /\ scan.tokens = <<PropertyToken(<<"a">>), IndexToken(Num(1)),
                     FunctionToken(<<>>, <<Num(1)>>), FunctionToken(<<"b">>, <<>>)>>

\* The delimiter closing the one opened at k lies inside a quoted stretch of
\* the text after k.
ClosedInQuotes(path, k) ==
  /\ ~Unclosed(path, k)
  /\ QuoteBefore(SubSeq(path, k + 1, ClosePos(path, k)), ClosePos(path, k) - k) # ""

\* C25: the delimiter scans count brackets and parens with no regard to
\* quotes: a ')' or ']' inside a quoted stretch of the argument string or
\* index expression closes the scan when it brings the count to zero, the
\* content ends before it, and the text after it is tokenized as the rest of
\* the path.
C25_DepthIgnoresQuotes ==
  /\ (scan.at \in {"bracket", "paren"} /\ ~InnerGoesOn(scan)
      /\ ClosedInQuotes(scan.path, scan.i))
       => /\ scan.content = SubSeq(scan.path, scan.i + 1, ClosePos(scan.path, scan.i) - 1)
          /\ scan.j = ClosePos(scan.path, scan.i) + 1
  /\ (scan.at = "done") =>
       \A k \in OpenersMet(scan.path) :
         ClosedInQuotes(scan.path, k) =>
           /\ scan.tokens =
                tokenizePath(SubSeq(scan.path, 1, ClosePos(scan.path, k)))
                  \o tokenizePath(SubSeq(scan.path, ClosePos(scan.path, k) + 1,
                                         Len(scan.path)))
           /\ \E t \in 1..Len(scan.tokens) :
                \/ /\ scan.path[k] = "("
                   /\ scan.tokens[t].type = "function"
                   /\ scan.tokens[t].args =
                        parseArguments(SubSeq(scan.path, k + 1, ClosePos(scan.path, k) - 1))
                \/ /\ scan.path[k] = "["
                   /\ scan.tokens[t] =
                        IndexToken(indexValue(SubSeq(scan.path, k + 1,
                                                     ClosePos(scan.path, k) - 1)))

C25_Witness ==
  /\ scan.at = "done"
  /\ scan.path = <<"f", "(", "'", ")", "'", ")", ".", "b">>
  /\ ClosedInQuotes(scan.path, 2)
  /\ scan.tokens = <<FunctionToken(<<"f">>, <<Str(<<>>)>>),
                     PropertyToken(<<"'", ")">>), PropertyToken(<<"b">>)>>

\* C26: tokenizePath returns for every path: from one test of the outer loop
\* to the next the index i has grown, also across a bracket or paren scan;
\* each iteration of an inner loop moves j one character on, never beyond the
\* end of the string; so the main scan looks at no character twice.
C26_ScanTerminates ==
  /\ [][scan.at # "idle" =>
          /\ scan'.at = "outer" => (scan'.i > scan.i /\ scan'.i <= Len(scan.path) + 1)
          /\ scan'.at \in {"bracket", "paren"} =>
               /\ scan'.i = scan.i
               /\ scan'.j = IF scan.at = "outer" THEN scan.i + 1 ELSE scan.j + 1
               /\ scan'.j <= Len(scan.path) + 1
          /\ scan'.at = "done" => scan.i = Len(scan.path) + 1
       ]_scan
  /\ (scan.at = "outer") ~> (scan.at = "done")

C26_Witness ==
  /\ scan.at = "done"
  /\ scan.path = <<"a", "[", "b", "[", "1", "]", "]", ".", "c">>
  /\ scan.i = Len(scan.path) + 1
  /\ Len(scan.tokens) = 3

---------------------------------------------------------------------------
(* runSequentially, and the validator of ValidItem.element                 *)

\* A promise factory, by what calling it does: it returns a promise that is
\* later resolved with the value v ("resolve") or rejected with the error v
\* ("reject"), or it throws the error v before returning one ("throw").
Factory(kind, v) == [kind |-> kind, v |-> v]

\* The state of one call: promiseFactories and results as in the code;
\* started lists the factories called, in the order of the calls; settled[i]
\* tells what became of the promise of factory i ("none" while it has not
\* settled); pending is the factory whose promise the loop awaits; at is
\* "idle", "awaiting", or how the promise of runSequentially settled
\* ("resolved", "rejected" with error).  For the validator of element, mode
\* is "element", caught and chained are the promises returned by .catch(...)
\* and .then(...), and callbacks lists the arguments callback was invoked
\* with (<<>> for a call without argument, <<e>> for the error e).
RunObject(mode, promiseFactories) ==
  [mode |-> mode, promiseFactories |-> promiseFactories, results |-> <<>>,
   started |-> <<>>, settled |-> [i \in 1..Len(promiseFactories) |-> "none"],
   pending |-> 0, at |-> "idle", error |-> 0,
   caught |-> "none", chained |-> "none", callbacks |-> <<>>]

\* catch (error) { throw error }: the promise of runSequentially is rejected.
rethrow(r, error) == [r EXCEPT !.at = "rejected", !.error = error, !.pending = 0]

\* The for loop at factory k: return results after the last one; otherwise
\* const result = await createPromise(), up to the await.
callNext(r, k) ==
  IF k > Len(r.promiseFactories) THEN [r EXCEPT !.at = "resolved", !.pending = 0]
  ELSE IF r.promiseFactories[k].kind = "throw"
    THEN rethrow([r EXCEPT !.started = Append(@, k)], r.promiseFactories[k].v)
  ELSE [r EXCEPT !.started = Append(@, k), !.pending = k, !.at = "awaiting"]

\* afterAwait going on with the next factory after a rejection.
afterAwaitSkipsRejected(r) ==
  IF r.settled[r.pending] = "resolved"
  THEN callNext([r EXCEPT !.results = Append(@, r.promiseFactories[r.pending].v)],
                r.pending + 1)
  ELSE callNext(r, r.pending + 1)

\* The loop after the awaited promise has settled: results.push(result) and
\* the next iteration, or the catch clause.
afterAwait(r) ==
  IF r.settled[r.pending] = "resolved"
  THEN callNext([r EXCEPT !.results = Append(@, r.promiseFactories[r.pending].v)],
                r.pending + 1)
  ELSE rethrow(r, r.promiseFactories[r.pending].v)

\* runSequentially(promiseFactories): const results = []; the loop up to its
\* first await.
runSequentially(mode, promiseFactories) ==
  callNext(RunObject(mode, promiseFactories), 1)

\* The validator of element: runSequentially(...).catch(...).then(...)
validator(rules) ==
  [runSequentially("element", rules) EXCEPT !.caught = "pending", !.chained = "pending"]

\* .catch((error) => callback(error)): the handler runs when the promise of
\* runSequentially is rejected, and the promise of catch is resolved with
\* what it returns; a resolved promise passes through.
catchSettles(r) ==
  IF r.at = "rejected"
  THEN [r EXCEPT !.callbacks = Append(@, <<r.error>>), !.caught = "resolved"]
  ELSE [r EXCEPT !.caught = "resolved"]

\* .then(() => callback()): the handler runs when the promise of catch is
\* resolved.
thenSettles(r) == [r EXCEPT !.callbacks = Append(@, <<>>), !.chained = "resolved"]

\* The factories the calls are made with, and the longest list of them.
Behaviours ==
  { Factory("resolve", 1), Factory("resolve", 2),
    Factory("reject", 1), Factory("reject", 2), Factory("throw", 3) }

MaxFactories == 3

RECURSIVE ListsUpTo(_, _)
ListsUpTo(S, n) ==
  IF n = 0 THEN {<<>>}
  ELSE ListsUpTo(S, n - 1) \cup {Append(l, x) : l \in ListsUpTo(S, n - 1), x \in S}

FactoryLists == ListsUpTo(Behaviours, MaxFactories)

\* The rules of a ValidItem are async methods: calling one returns a promise.
RuleLists == {l \in FactoryLists : \A i \in 1..Len(l) : l[i].kind # "throw"}

InitRun ==
  /\ heap = <<>>
  /\ root = Undefined
  /\ pc = "ready"
  /\ call = NoCall
  /\ setex = <<>>
  /\ form = <<>>
  /\ scan = <<>>
  /\ run = RunObject("idle", <<>>)
  /\ meta = <<>>
  /\ acts = <<>>
  /\ queue = <<>>

CallRunSequentially ==
  /\ run.mode = "idle"
  /\ \E promiseFactories \in FactoryLists : run' = runSequentially("direct", promiseFactories)
  /\ UNCHANGED <<heap, root, pc, call, setex, form, scan, meta, acts, queue>>

CallValidator ==
  /\ run.mode = "idle"
  /\ \E rules \in RuleLists : run' = validator(rules)
  /\ UNCHANGED <<heap, root, pc, call, setex, form, scan, meta, acts, queue>>

\* The promise the loop awaits settles.
PromiseSettles ==
  /\ run.at = "awaiting"
  /\ run.settled[run.pending] = "none"
  /\ run' = [run EXCEPT !.settled[run.pending] =
               IF run.promiseFactories[run.pending].kind = "resolve"
               THEN "resolved" ELSE "rejected"]
  /\ UNCHANGED <<heap, root, pc, call, setex, form, scan, meta, acts, queue>>

AfterAwait ==
  /\ run.at = "awaiting"
  /\ run.settled[run.pending] # "none"
  /\ run' = afterAwait(run)
  /\ UNCHANGED <<heap, root, pc, call, setex, form, scan, meta, acts, queue>>

CatchSettles ==
  /\ run.at \in {"resolved", "rejected"}
  /\ run.caught = "pending"
  /\ run' = catchSettles(run)
  /\ UNCHANGED <<heap, root, pc, call, setex, form, scan, meta, acts, queue>>

ThenSettles ==
  /\ run.caught = "resolved"
  /\ run.chained = "pending"
  /\ run' = thenSettles(run)
  /\ UNCHANGED <<heap, root, pc, call, setex, form, scan, meta, acts, queue>>

NextRun ==
  \/ CallRunSequentially \/ CallValidator \/ PromiseSettles \/ AfterAwait
  \/ CatchSettles \/ ThenSettles

SpecRun == InitRun /\ [][NextRun]_vars

---------------------------------------------------------------------------
(* Properties of runSequentially and of the validator                      *)

\* The factories of the list that do not resolve, by position.
Failing(l) == {i \in 1..Len(l) : l[i].kind # "resolve"}

\* The first of them.
FirstFailing(l) == CHOOSE i \in Failing(l) : \A j \in Failing(l) : i <= j

\* C27: runSequentially calls the factories in list order, calling factory
\* i + 1 only after the promise of factory i has resolved; at the first
\* rejection it rejects with that error, having called no later factory; when
\* all resolve it resolves with their results in list order.
C27_OneAfterTheOther ==
  run.mode # "idle" =>
    /\ \A k \in 1..Len(run.started) :
         /\ run.started[k] = k
         /\ k > 1 => run.settled[k - 1] = "resolved"
    /\ Failing(run.promiseFactories) # {} =>
         /\ Len(run.started) <= FirstFailing(run.promiseFactories)
         /\ run.at # "resolved"
         /\ run.at = "rejected" =>
              /\ run.error = run.promiseFactories[FirstFailing(run.promiseFactories)].v
              /\ Len(run.started) = FirstFailing(run.promiseFactories)
    /\ run.at = "resolved" =>
         /\ Len(run.started) = Len(run.promiseFactories)
         /\ run.results = [i \in 1..Len(run.promiseFactories) |-> run.promiseFactories[i].v]
    /\ run.at = "rejected" => Failing(run.promiseFactories) # {}

C27_Witness ==
  /\ run.mode = "direct"
  /\ run.promiseFactories = <<Factory("resolve", 2), Factory("reject", 1), Factory("resolve", 1)>>
  /\ run.at = "rejected"
  /\ run.error = 1
  /\ run.started = <<1, 2>>
  /\ run.results = <<2>>

\* C29: for every invocation of the validator returned by element, callback
\* is invoked exactly once: with the error of the first failing rule when a
\* rule rejects, with no argument when every rule passes.
C29_CallbackOnce ==
  run.mode = "element" =>
    /\ Len(run.callbacks) <= 1
    /\ run.chained = "resolved" =>
         run.callbacks =
           IF Failing(run.promiseFactories) # {}
           THEN << <<run.promiseFactories[FirstFailing(run.promiseFactories)].v>> >>
           ELSE << <<>> >>

---------------------------------------------------------------------------
(* The collection against its key map                                      *)

\* has(key), find(key) (0 for null) and the size of the Set.
has(this, key) == this.map[key] # 0

find(this, key) == this.map[key]

size(this) == Len(this.items)

\* The values of this._map.
MapValues(this) == {this.map[k] : k \in {k \in Keys : this.map[k] # 0}}

\* C28: after any sequence of add, addAll, add2, addAll2, delete and reset
\* (and of the setters of the flags and callbacks),
\* the elements iterated are exactly the values of the key map: size is the
\* number of keys held, has(k) is true exactly when one element has the key
\* k, and find(k) is that element.
C28_SetMatchesMap ==
  call.plain =>
  /\ Elements(setex) = MapValues(setex)
  /\ size(setex) = Cardinality({k \in Keys : has(setex, k)})
  /\ \A k \in Keys :
       /\ has(setex, k) <=> Cardinality(WithKey(setex, k)) = 1
       /\ has(setex, k) => WithKey(setex, k) = {find(setex, k)}

---------------------------------------------------------------------------
(* The Field decorator: the metadata lists of one target                   *)

\* A metadata value that is a list of property names, or undefined.
NoList == [defined |-> FALSE, list |-> <<>>]

ListOf(list) == [defined |-> TRUE, list |-> list]

\* The metadata of the target: fields tells whether _fields is defined; the
\* lists are those kept under _columns, _columnsNoId, _ids, _logicIds and
\* _index.
NoMetadata ==
  [fields |-> FALSE, columns |-> NoList, columnsNoId |-> NoList, ids |-> NoList,
   logicIds |-> NoList, index |-> NoList]

\* The options of a field the lists depend on.
FieldOption(id, logicId, index) == [id |-> id, logicId |-> logicId, index |-> index]

\* What an application leaves: the metadata of the target and whether it
\* threw.
Applied(store, threw) == [store |-> store, threw |-> threw]

\* list.push(propertyName) when the condition holds.
pushIf(cond, l, propertyName) ==
  IF cond THEN ListOf(Append(l.list, propertyName)) ELSE l

\* The locals after if (!__fields) { ... }: the lists but __logicIds are
\* fresh when _fields is not defined.
locals(store) ==
  IF store.fields THEN store
  ELSE [fields |-> TRUE, columns |-> ListOf(<<>>), columnsNoId |-> ListOf(<<>>),
        ids |-> ListOf(<<>>), logicIds |-> store.logicIds, index |-> ListOf(<<>>)]

\* __columns.push and the push to __ids or __columnsNoId.
pushColumns(l, propertyName, field) ==
  [l EXCEPT !.columns = pushIf(TRUE, @, propertyName),
            !.ids = pushIf(field.id, @, propertyName),
            !.columnsNoId = pushIf(~field.id, @, propertyName)]

\* The pushes to __logicIds and __index; the lists are then defined on the
\* target.
pushRest(l, propertyName, field) ==
  [l EXCEPT !.logicIds = pushIf(field.logicId, @, propertyName),
            !.index = pushIf(field.index, @, propertyName)]

\* From __fields[propertyName] = field on.  __logicIds.push throws when
\* __logicIds is undefined: the lists already defined on the target keep
\* what was pushed before, the fresh ones are lost.
pushed(store, l, propertyName, field) ==
  IF field.logicId /\ ~l.logicIds.defined
  THEN Applied(IF store.fields THEN l ELSE store, TRUE)
  ELSE Applied(pushRest(l, propertyName, field), FALSE)

\* Field(config)(object, propertyName) on the metadata of object.
Field(store, propertyName, field) ==
  pushed(store, pushColumns(locals(store), propertyName, field), propertyName, field)

\* The property names decorated, and how many of them there are.
MaxFields == 3

PropertyNames == 1..MaxFields

\* One application as recorded: its property name, options and whether it
\* threw.
Application(propertyName, field, threw) ==
  [propertyName |-> propertyName, field |-> field, threw |-> threw]

InitMeta ==
  /\ heap = <<>>
  /\ root = Undefined
  /\ pc = "ready"
  /\ call = NoCall
  /\ setex = <<>>
  /\ form = <<>>
  /\ scan = <<>>
  /\ run = <<>>
  /\ meta = [store |-> NoMetadata, applications |-> <<>>]
  /\ acts = <<>>
  /\ queue = <<>>

\* The decorator is applied to a property name not decorated before.
ApplyField ==
  /\ \E propertyName \in PropertyNames, id \in BOOLEAN, logicId \in BOOLEAN, index \in BOOLEAN :
       /\ \A k \in 1..Len(meta.applications) :
            meta.applications[k].propertyName # propertyName
       /\ \E r \in {Field(meta.store, propertyName, FieldOption(id, logicId, index))} :
            meta' = [store |-> r.store,
                     applications |-> Append(meta.applications,
                        Application(propertyName, FieldOption(id, logicId, index), r.threw))]
  /\ UNCHANGED <<heap, root, pc, call, setex, form, scan, run, acts, queue>>

NextMeta == ApplyField

SpecMeta == InitMeta /\ [][NextMeta]_vars

---------------------------------------------------------------------------
(* Properties of the Field decorator                                       *)

\* The property names of the applications that satisfy the condition of the
\* list which, in application order.
RECURSIVE NamesWhere(_, _, _)
NamesWhere(apps, which, k) ==
  IF k > Len(apps) THEN <<>>
  ELSE (IF (which = "columns")
           \/ (which = "ids" /\ apps[k].field.id)
           \/ (which = "columnsNoId" /\ ~apps[k].field.id)
           \/ (which = "logicIds" /\ apps[k].field.logicId)
           \/ (which = "index" /\ apps[k].field.index)
        THEN <<apps[k].propertyName>> ELSE <<>>)
       \o NamesWhere(apps, which, k + 1)

\* C30: after any sequence of applications to distinct property names of one
\* target no application has thrown, and each list holds the names of the
\* applications that satisfy its condition, in application order.
C30_ListsHoldDecoratedNames ==
  /\ \A k \in 1..Len(meta.applications) : ~meta.applications[k].threw
  /\ meta.applications # <<>> =>
       /\ meta.store.columns.list = NamesWhere(meta.applications, "columns", 1)
       /\ meta.store.ids.list = NamesWhere(meta.applications, "ids", 1)
       /\ meta.store.columnsNoId.list = NamesWhere(meta.applications, "columnsNoId", 1)
       /\ meta.store.logicIds.list = NamesWhere(meta.applications, "logicIds", 1)
       /\ meta.store.index.list = NamesWhere(meta.applications, "index", 1)

\* The own properties of every object of the heap are kept in the order they
\* are enumerated.
KeysInOrder ==
  \A c \in 1..Len(heap) : \A i \in 1..Len(heap[c].props), j \in 1..Len(heap[c].props) :
    i < j => ~KeyBefore(heap[c].props[j].k, heap[c].props[i].k)

=============================================================================
